---- MODULE Spec2Model ----
(***************************************************************************)
(* Control plane of the adaptive web agent backend.                        *)
(*                                                                         *)
(*   backend/server.py        POST /execute, the /ws/control channel and   *)
(*                            the send_control_event helpers               *)
(*   adaptive_agent.py        AgentConfig and run_adaptive_agent           *)
(*   test_graceful_shutdown.py  GracefulShutdown                           *)
(*                                                                         *)
(* Three specifications share the module:                                  *)
(*   Spec / FairSpec   the /execute handler and the control channel        *)
(*   SpecWorker        one run of run_adaptive_agent                       *)
(*   SpecShutdown      the GracefulShutdown object                         *)
(***************************************************************************)
EXTENDS Naturals, Sequences, FiniteSets

\* ------------------------------------------------------------------------
\* Bounds of the model
\* ------------------------------------------------------------------------
\* Client messages sent over all control connections together.
MaxCmds == 3
\* Largest max_steps a worker run is configured with.
MaxSteps == 2
\* Most items the worker collects in one run.
MaxItems == 2
\* Screenshots one LoopDetector is shown.
MaxObservations == 6
\* Frames the capture source produces.
MaxFrames == 2
\* POST /execute/stream requests.
MaxStreamRuns == 1
\* Events one worker thread hands to sync_progress_callback.
MaxEmits == 3
\* Largest loop_threshold and max_history a LoopDetector is given.
MaxThreshold == 4
MaxCapacity == 5
\* Calls of get_alternative_action on one LoopDetector.
MaxSuggestions == 2
\* Calls of print and _emit made by all concurrent workers together.
MaxPrints == 3
\* Events the worker of one /execute/stream request emits.
MaxStreamEvents == 4

\* ------------------------------------------------------------------------
\* Identities
\* ------------------------------------------------------------------------
\* uuid4 values POST /execute can allocate (server.py:179).
SessionIds == {"s1"}
\* session_id query parameter of /ws/control; "unknown" is its default
\* (server.py:541).  Any string is accepted, registered or not.
QueryIds == SessionIds \cup {"unknown"}
\* Control websocket connections.
Conns == {"c1", "c2"}
\* Texts a nudge command can carry.
NudgeTexts == {"a", "b"}
\* Viewer connections on /ws/browser.
Viewers == {"v1", "v2"}
\* Workers running in executor threads at the same time, one for each
\* /execute/stream request (server.py:304-306).
Workers == {"wA", "wB"}

\* Python dicts: a function whose domain is the set of keys present.
EmptyDict == [k \in {} |-> k]
DictSet(d, k, v) == [x \in DOMAIN d \cup {k} |-> IF x = k THEN v ELSE d[x]]
DictDel(d, k) == [x \in DOMAIN d \ {k} |-> d[x]]

VARIABLES
    active_sessions,            \* server.py:36   session id -> status
    agent_control_state,        \* server.py:42   session id -> record
    execute_response,           \* outcome of POST /execute per allocated id
    run_agent_task,             \* whether asyncio.create_task(run_agent()) ran
    control_websocket_clients,  \* server.py:38   query id -> connection
    ws_state,                   \* connection -> "closed" | "open"
    ws_session,                 \* connection -> its session_id query parameter
    inbox,                      \* connection -> client messages not yet received
    received,                   \* connection -> events the server sent on it
    cmds_sent                   \* client messages sent so far

VARIABLES
    shutdown_requested,         \* GracefulShutdown.shutdown_requested
    gs_refs,                    \* GracefulShutdown.page/context/browser/playwright
    obj_state,                  \* the referenced objects: "none" | "open" | "closed"
    close_raises,               \* objects whose close()/stop() raises
    gs_pc,                      \* position inside cleanup()
    process_exited              \* sys.exit(1) was called

sdVars == <<shutdown_requested, gs_refs, obj_state, close_raises, gs_pc,
            process_exited>>

VARIABLES
    w_pc,                       \* position inside run_adaptive_agent
    w_max_steps,                \* config.max_steps
    w_step,                     \* loop variable `step`
    w_action,                   \* action parsed from the model's answer
    w_success,                  \* local `success`
    w_collected,                \* len(collected_data)
    w_errors,                   \* len(errors)
    w_raised,                   \* an exception is propagating out of the loop
    w_objs,                     \* browser, context, page: "none" | "open" | "closed"
    w_print,                    \* what builtins.print is bound to
    w_events,                   \* progress_events, as handed to progress_callback
    w_status                    \* AgentResult.status once built

wVars == <<w_pc, w_max_steps, w_step, w_action, w_success, w_collected,
           w_errors, w_raised, w_objs, w_print, w_events, w_status>>

VARIABLES
    screenshot_hashes,          \* LoopDetector.screenshot_hashes
    ld_observed,                \* every fingerprint observed so far, in order
    ld_returned,                \* what the last detect_visual_loop returned
    ld_returns,                 \* what every detect_visual_loop returned, in order
    self_max_history,           \* LoopDetector.max_history
    self_loop_threshold,        \* LoopDetector.loop_threshold
    last_action,                \* LoopDetector.last_action
    loop_break_attempts,        \* LoopDetector.loop_break_attempts
    ld_suggested                \* every get_alternative_action call, in order

ldVars == <<screenshot_hashes, ld_observed, ld_returned, ld_returns,
            self_max_history, self_loop_threshold, last_action,
            loop_break_attempts, ld_suggested>>

VARIABLES
    app_started,                \* startup_event has run
    live_browser,               \* _live_browser_instance and its fields
    source_alive,               \* the browser behind cdp_session still answers
    screencast_on,              \* Page.startScreencast is in effect
    connected_websocket_clients, \* server.py:37
    v_pc,                       \* viewer -> position of its /ws/browser handler
    v_manager,                  \* viewer -> generation of the manager it awaits
    v_sink,                     \* viewer -> "ok" | "broken" (send_json raises)
    v_frames,                   \* viewer -> frames it has received
    frames_emitted,             \* Page.screencastFrame events so far
    awaiting_ack,               \* frame whose screencastFrameAck is due, or 0
    frame_tasks,                \* _handle_frame calls under way
    stream_runs                 \* POST /execute/stream requests so far

frVars == <<app_started, live_browser, source_alive, screencast_on,
            connected_websocket_clients, v_pc, v_manager, v_sink, v_frames,
            frames_emitted, awaiting_ack, frame_tasks, stream_runs>>

VARIABLES
    d_pc,                       \* worker thread: "idle" | "waiting" (future.result)
    d_calls,                    \* _emit calls of the worker thread so far
    d_last,                     \* how the last call of deliver ended
    loop_queue,                 \* coroutines scheduled on the main loop, not yet run
    deliver_raised,             \* an exception left send_control_event_threadsafe
    emit_raised                 \* an exception left _emit into the worker

dlVars == <<d_pc, d_calls, d_last, loop_queue, deliver_raised, emit_raised>>

VARIABLES
    builtins_print,             \* builtins.print: "original" or the worker whose instrumented_print it is
    ph_pc,                      \* worker -> "idle" | "running" | "ended"
    original_print,             \* worker -> the value of builtins.print it saved at its start
    ph_got,                     \* worker -> events its progress_callback got, each named by the worker that produced it
    ph_prints                   \* print and _emit calls so far

phVars == <<builtins_print, ph_pc, original_print, ph_got, ph_prints>>

VARIABLES
    agent_task,                 \* the executor future: "none" | "running" | "returned" | "raised"
    es_emitted,                 \* events the worker has emitted, numbered 1, 2, ...
    event_queue,                \* event_queue of the request
    es_pc,                      \* event_generator: "start" | "check" | "drain" | "sleep" | "closed"
    es_streamed                 \* what the client has been sent

esVars == <<agent_task, es_emitted, event_queue, es_pc, es_streamed>>

ctlVars == <<active_sessions, agent_control_state, execute_response,
             run_agent_task, control_websocket_clients, ws_state, ws_session,
             inbox, received, cmds_sent>>

\* ------------------------------------------------------------------------
\* adaptive_agent.py: AgentConfig
\* ------------------------------------------------------------------------
\* Fields of the AgentConfig dataclass.
AgentConfigFields == {"task", "model", "tools", "max_steps", "headless"}

\* The generated __init__ of a dataclass accepts its fields as keywords and
\* raises TypeError for any other keyword.
AgentConfigInit(kwargs) ==
    IF kwargs \subseteq AgentConfigFields THEN "config" ELSE "TypeError"

\* Keywords POST /execute passes to AgentConfig (server.py:201-208).
ExecuteKwargs ==
    {"task", "model", "tools", "max_steps", "headless", "control_state"}

\* ------------------------------------------------------------------------
\* backend/server.py: POST /execute
\* ------------------------------------------------------------------------
\* The record registered for a new session (server.py:193-198).
InitialControlState ==
    [paused |-> FALSE, stop_requested |-> FALSE, nudges |-> <<>>]

\* The handler has no await before the task is created, so it is one step of
\* the event loop.  The registry entries are written first; AgentConfig is
\* built next.  When the constructor raises, the exception leaves the
\* handler (HTTP 500): nothing after line 201 runs, so sync_progress_callback
\* and run_agent are never created and the entries written above stay.
execute(s) ==
    /\ execute_response[s] = "none"
    /\ active_sessions' = DictSet(active_sessions, s, "starting")
    /\ agent_control_state' = DictSet(agent_control_state, s, InitialControlState)
    /\ IF AgentConfigInit(ExecuteKwargs) = "TypeError"
       THEN /\ execute_response' = [execute_response EXCEPT ![s] = "error_500"]
            /\ run_agent_task' = run_agent_task
       ELSE /\ execute_response' = [execute_response EXCEPT ![s] = "accepted"]
            /\ run_agent_task' = [run_agent_task EXCEPT ![s] = "created"]
    /\ UNCHANGED <<control_websocket_clients, ws_state, ws_session, inbox,
                   received, cmds_sent>>

\* ------------------------------------------------------------------------
\* backend/server.py: events
\* ------------------------------------------------------------------------
StatusEvent(phase) == [type |-> "status", phase |-> phase]
CommandAck(command) == [type |-> "command_ack", command |-> command]
NudgeAck(text) == [type |-> "command_ack", command |-> "nudge", text |-> text]
Pong == [type |-> "pong"]

\* Client messages.
Message(type, text) == [type |-> type, text |-> text]
ClientMessages ==
    {Message(t, "") : t \in {"pause", "resume", "stop", "ping", "bogus"}}
        \cup {Message("nudge", x) : x \in NudgeTexts}

\* A text frame that is JSON but not an object (a list, a string, a number):
\* receive_json returns it and message.get raises AttributeError.
MalformedMessage == Message("<not an object>", "")

\* send_control_event (server.py:656-662): the event goes to the connection
\* the registry holds for the session, if any; otherwise it is dropped.
send_control_event(rcv, clients, sid, event) ==
    IF sid \in DOMAIN clients
    THEN [rcv EXCEPT ![clients[sid]] = Append(@, event)]
    ELSE rcv

\* ------------------------------------------------------------------------
\* backend/server.py: /ws/control
\* ------------------------------------------------------------------------
\* `session_id in agent_control_state`
Registered(acs, sid) == sid \in DOMAIN acs

\* A handler whose nudge replaces the queue instead of appending to it.
ControlStateAfterNudgeOverwrites(acs, sid, m) ==
    IF ~Registered(acs, sid) THEN acs
    ELSE CASE m.type = "pause"  -> [acs EXCEPT ![sid].paused = TRUE]
           [] m.type = "resume" -> [acs EXCEPT ![sid].paused = FALSE]
           [] m.type = "stop"   -> [acs EXCEPT ![sid].stop_requested = TRUE]
           [] m.type = "nudge"  -> [acs EXCEPT ![sid].nudges = <<m.text>>]
           [] OTHER             -> acs

\* The write each command makes to the session's record, under its lock
\* (server.py:568-570, 583-585, 598-600, 610-612).
ControlStateAfter(acs, sid, m) ==
    IF ~Registered(acs, sid) THEN acs
    ELSE CASE m.type = "pause"  -> [acs EXCEPT ![sid].paused = TRUE]
           [] m.type = "resume" -> [acs EXCEPT ![sid].paused = FALSE]
           [] m.type = "stop"   -> [acs EXCEPT ![sid].stop_requested = TRUE]
           [] m.type = "nudge"  -> [acs EXCEPT ![sid].nudges = Append(@, m.text)]
           [] OTHER             -> acs

\* A handler that sends the status event without looking for the record.
CommandStatusUnguarded(acs, sid, m) ==
    CASE m.type = "pause"  -> <<StatusEvent("PAUSED")>>
      [] m.type = "resume" -> <<StatusEvent("RUNNING")>>
      [] OTHER             -> <<>>

\* The status events a command hands to send_control_event
\* (server.py:571-574, 586-589): pause and resume of a registered session
\* send one on every call, whatever the flag was before.
CommandStatus(acs, sid, m) ==
    IF ~Registered(acs, sid) THEN <<>>
    ELSE CASE m.type = "pause"  -> <<StatusEvent("PAUSED")>>
           [] m.type = "resume" -> <<StatusEvent("RUNNING")>>
           [] OTHER             -> <<>>

\* A handler that forgets the reply to stop.
CommandReplyWithoutStopAck(m) ==
    CASE m.type \in {"pause", "resume"} -> <<CommandAck(m.type)>>
      [] m.type = "nudge" -> <<NudgeAck(m.text)>>
      [] m.type = "ping" -> <<Pong>>
      [] OTHER -> <<>>

\* What the handler sends on the sender's own websocket
\* (server.py:575-579, 590-594, 601-605, 613-618, 622-625, 627-628).
CommandReply(m) ==
    CASE m.type \in {"pause", "resume", "stop"} -> <<CommandAck(m.type)>>
      [] m.type = "nudge" -> <<NudgeAck(m.text)>>
      [] m.type = "ping" -> <<Pong>>
      [] OTHER -> <<>>

\* websocket.accept(), registration and the IDLE confirmation
\* (server.py:538-555).  Registration overwrites any entry of the same id.
websocket_accept(c, q) ==
    /\ ws_state[c] = "closed"
    /\ ws_state' = [ws_state EXCEPT ![c] = "open"]
    /\ ws_session' = [ws_session EXCEPT ![c] = q]
    /\ control_websocket_clients' = DictSet(control_websocket_clients, q, c)
    /\ inbox' = [inbox EXCEPT ![c] = <<>>]
    /\ received' = [received EXCEPT ![c] = <<StatusEvent("IDLE")>>]
    /\ UNCHANGED <<active_sessions, agent_control_state, execute_response,
                   run_agent_task, cmds_sent>>

\* The client writes a message on its open connection.
client_send(c, m) ==
    /\ ws_state[c] = "open"
    /\ cmds_sent < MaxCmds
    /\ inbox' = [inbox EXCEPT ![c] = Append(@, m)]
    /\ cmds_sent' = cmds_sent + 1
    /\ UNCHANGED <<active_sessions, agent_control_state, execute_response,
                   run_agent_task, control_websocket_clients, ws_state,
                   ws_session, received>>

\* One turn of the command loop (server.py:558-628): receive_json returns the
\* oldest message, the command is applied, its status event (if any) goes
\* through send_control_event, and the reply goes to the sender.
websocket_receive(c) ==
    /\ ws_state[c] = "open"
    /\ inbox[c] # <<>>
    /\ Head(inbox[c]) # MalformedMessage
    /\ LET m == Head(inbox[c])
           sid == ws_session[c]
           status == CommandStatus(agent_control_state, sid, m)
           rcv1 == IF status = <<>> THEN received
                   ELSE send_control_event(received, control_websocket_clients,
                                           sid, status[1])
       IN /\ agent_control_state' = ControlStateAfter(agent_control_state, sid, m)
          /\ received' = [rcv1 EXCEPT ![c] = @ \o CommandReply(m)]
    /\ inbox' = [inbox EXCEPT ![c] = Tail(@)]
    /\ UNCHANGED <<active_sessions, execute_response, run_agent_task,
                   control_websocket_clients, ws_state, ws_session, cmds_sent>>

\* The client writes a frame that is not a JSON object.
client_send_malformed(c) ==
    /\ ws_state[c] = "open"
    /\ cmds_sent < MaxCmds
    /\ inbox' = [inbox EXCEPT ![c] = Append(@, MalformedMessage)]
    /\ cmds_sent' = cmds_sent + 1
    /\ UNCHANGED <<active_sessions, agent_control_state, execute_response,
                   run_agent_task, control_websocket_clients, ws_state,
                   ws_session, received>>

\* The command loop receives a frame that is not a JSON object:
\* message.get raises, `except Exception` logs and breaks out of the loop
\* (server.py:636-638), and the finally block deletes the registry entry of
\* the session id and the connection is closed (648-653).
websocket_receive_malformed(c) ==
    /\ ws_state[c] = "open"
    /\ inbox[c] # <<>>
    /\ Head(inbox[c]) = MalformedMessage
    /\ ws_state' = [ws_state EXCEPT ![c] = "closed"]
    /\ control_websocket_clients' =
           DictDel(control_websocket_clients, ws_session[c])
    /\ ws_session' = [ws_session EXCEPT ![c] = "unknown"]
    /\ inbox' = [inbox EXCEPT ![c] = <<>>]
    /\ received' = [received EXCEPT ![c] = <<>>]
    /\ UNCHANGED <<active_sessions, agent_control_state, execute_response,
                   run_agent_task, cmds_sent>>

\* A cleanup that also forgets the session's control record.
websocket_disconnect_dropping_state(c) ==
    /\ ws_state[c] = "open"
    /\ ws_state' = [ws_state EXCEPT ![c] = "closed"]
    /\ control_websocket_clients' =
           DictDel(control_websocket_clients, ws_session[c])
    /\ agent_control_state' = DictDel(agent_control_state, ws_session[c])
    /\ ws_session' = [ws_session EXCEPT ![c] = "unknown"]
    /\ inbox' = [inbox EXCEPT ![c] = <<>>]
    /\ received' = [received EXCEPT ![c] = <<>>]
    /\ UNCHANGED <<active_sessions, execute_response, run_agent_task, cmds_sent>>

\* The client goes away: receive_json raises WebSocketDisconnect and the
\* finally block deletes the registry entry of the session id, whichever
\* connection that entry holds (server.py:636-653).
websocket_disconnect(c) ==
    /\ ws_state[c] = "open"
    /\ ws_state' = [ws_state EXCEPT ![c] = "closed"]
    /\ control_websocket_clients' =
           DictDel(control_websocket_clients, ws_session[c])
    /\ ws_session' = [ws_session EXCEPT ![c] = "unknown"]
    /\ inbox' = [inbox EXCEPT ![c] = <<>>]
    /\ received' = [received EXCEPT ![c] = <<>>]
    /\ UNCHANGED <<active_sessions, agent_control_state, execute_response,
                   run_agent_task, cmds_sent>>

\* ------------------------------------------------------------------------
\* test_graceful_shutdown.py: GracefulShutdown
\* ------------------------------------------------------------------------
\* The four references, in the order cleanup() visits them.
CleanupOrder == <<"page", "context", "browser", "playwright">>
Resources == {CleanupOrder[i] : i \in 1..Len(CleanupOrder)}

\* check_shutdown
check_shutdown == shutdown_requested

\* A handler that leaves the process at the first signal.
handle_shutdown_exits_at_once ==
    /\ ~process_exited
    /\ shutdown_requested' = TRUE
    /\ process_exited' = TRUE
    /\ UNCHANGED <<gs_refs, obj_state, close_raises, gs_pc>>

\* _handle_shutdown: the first signal sets the flag, a signal that finds the
\* flag set calls sys.exit(1).
handle_shutdown ==
    /\ ~process_exited
    /\ IF shutdown_requested
       THEN process_exited' = TRUE /\ UNCHANGED shutdown_requested
       ELSE shutdown_requested' = TRUE /\ UNCHANGED process_exited
    /\ UNCHANGED <<gs_refs, obj_state, close_raises, gs_pc>>

\* set_browser_refs(playwright, browser, context, page): each argument is an
\* open object or None; `bad` are the objects whose close()/stop() raises
\* (a browser that has already crashed, a driver that is gone).
set_browser_refs(given, bad) ==
    /\ ~process_exited
    /\ gs_pc = "idle"
    /\ \A r \in Resources : obj_state[r] = "none"
    /\ gs_refs' = [r \in Resources |-> r \in given]
    /\ obj_state' = [r \in Resources |-> IF r \in given THEN "open" ELSE "none"]
    /\ close_raises' = bad
    /\ UNCHANGED <<shutdown_requested, gs_pc, process_exited>>

\* cleanup() is entered.
cleanup_begin ==
    /\ ~process_exited
    /\ gs_pc \in {"idle", "done", "raised"}
    /\ gs_pc' = CleanupOrder[1]
    /\ UNCHANGED <<shutdown_requested, gs_refs, obj_state, close_raises,
                   process_exited>>

\* Where cleanup() goes after the block of resource r.
AfterBlock(r) ==
    IF r = "page" THEN "context"
    ELSE IF r = "context" THEN "browser"
    ELSE IF r = "browser" THEN "playwright"
    ELSE "done"

\* One `if self.r: self.r.close(); self.r = None` block of cleanup().  The
\* blocks are not guarded: an exception raised by close() leaves cleanup()
\* at once, with this reference and all later ones untouched.
cleanup_block(r) ==
    /\ ~process_exited
    /\ gs_pc = r
    /\ IF ~gs_refs[r]
       THEN /\ gs_pc' = AfterBlock(r)
            /\ UNCHANGED <<gs_refs, obj_state>>
       ELSE IF r \in close_raises
       THEN /\ gs_pc' = "raised"
            /\ UNCHANGED <<gs_refs, obj_state>>
       ELSE /\ gs_pc' = AfterBlock(r)
            /\ obj_state' = [obj_state EXCEPT ![r] = "closed"]
            /\ gs_refs' = [gs_refs EXCEPT ![r] = FALSE]
    /\ UNCHANGED <<shutdown_requested, close_raises, process_exited>>

SdInit ==
    /\ shutdown_requested = FALSE
    /\ gs_refs = [r \in Resources |-> FALSE]
    /\ obj_state = [r \in Resources |-> "none"]
    /\ close_raises = {}
    /\ gs_pc = "idle"
    /\ process_exited = FALSE

\* ------------------------------------------------------------------------
\* adaptive_agent.py: run_adaptive_agent
\* ------------------------------------------------------------------------
\* The event _emit builds: message, level and optional payload.  It carries
\* no "type" and no "phase" key.
ProgressEvent(message, level) == [message |-> message, level |-> level]
ScreenshotEvent(step) ==
    [message |-> "screenshot", level |-> "info",
     payload |-> [type |-> "screenshot", step |-> step]]

\* _emit: append to progress_events and hand the event to the callback.
emit(events, event) == Append(events, event)

\* Actions the main loop has a branch for, "none" when the answer holds no
\* ACTION line, "other" for any text that matches no branch.
OracleActions == {"none", "done", "extract", "analyze", "goto", "type",
                  "click", "other"}

LaunchOrder == <<"browser", "context", "page">>
WorkerObjects == {LaunchOrder[i] : i \in 1..Len(LaunchOrder)}

\* run_adaptive_agent is entered: builtins.print is replaced, success = False.
run_adaptive_agent(n) ==
    /\ w_pc = "idle"
    /\ w_pc' = "setup"
    /\ w_max_steps' = n
    /\ w_print' = "instrumented"
    /\ w_success' = FALSE
    /\ UNCHANGED <<w_step, w_action, w_collected, w_errors, w_raised, w_objs,
                   w_events, w_status>>

\* init_learning_db, the two banner lines, sync_playwright and the three
\* launches.  `launched` is how many of browser, context, page came up
\* before something raised; db_ok = FALSE is init_learning_db raising.
worker_setup(db_ok, launched) ==
    /\ w_pc = "setup"
    /\ IF ~db_ok
       THEN /\ w_pc' = "outer_except"
            /\ UNCHANGED <<w_objs, w_events, w_raised>>
       ELSE /\ w_events' = emit(w_events, ProgressEvent("banner", "info"))
            /\ w_objs' = [o \in WorkerObjects |->
                            IF \E i \in 1..launched : LaunchOrder[i] = o
                            THEN "open" ELSE "none"]
            /\ IF launched = Len(LaunchOrder)
               THEN w_pc' = "loop_top" /\ UNCHANGED w_raised
               ELSE w_pc' = "cleanup" /\ w_raised' = TRUE
    /\ UNCHANGED <<w_max_steps, w_step, w_action, w_success, w_collected,
                   w_errors, w_print, w_status>>

\* Head of `for step in range(MAX_STEPS)` up to the screenshot: the step
\* banner, page.url, the auto-extraction on a new URL (`found` items), element
\* detection and labels.  page_ok = FALSE is any of the page calls raising.
loop_top(page_ok, found) ==
    /\ w_pc = "loop_top"
    /\ IF w_step >= w_max_steps
       THEN /\ w_pc' = "cleanup"
            /\ UNCHANGED <<w_events, w_collected, w_raised>>
       ELSE /\ w_events' = emit(w_events, ProgressEvent("step", "info"))
            /\ IF page_ok
               THEN /\ w_pc' = "screenshot"
                    /\ w_collected' = w_collected + found
                    /\ UNCHANGED w_raised
               ELSE /\ w_pc' = "cleanup"
                    /\ w_raised' = TRUE
                    /\ UNCHANGED w_collected
    /\ UNCHANGED <<w_max_steps, w_step, w_action, w_success, w_errors,
                   w_objs, w_print, w_status>>

\* page.screenshot(): on success the screenshot event is emitted, on failure
\* the error is recorded, printed, and the loop is left with `break`.
screenshot(ok) ==
    /\ w_pc = "screenshot"
    /\ IF ok
       THEN /\ w_events' = emit(w_events, ScreenshotEvent(w_step + 1))
            /\ w_pc' = "oracle"
            /\ UNCHANGED w_errors
       ELSE /\ w_events' = emit(w_events, ProgressEvent("screenshot_failed", "info"))
            /\ w_errors' = w_errors + 1
            /\ w_pc' = "cleanup"
    /\ UNCHANGED <<w_max_steps, w_step, w_action, w_success, w_collected,
                   w_raised, w_objs, w_print, w_status>>

\* client.messages.create and the parse of its answer.  The call is outside
\* the per-action try: if it raises, the exception leaves the loop.  An
\* answer without an ACTION line goes to the next step with `continue`.
oracle(ok, a) ==
    /\ w_pc = "oracle"
    /\ IF ~ok
       THEN /\ w_pc' = "cleanup"
            /\ w_raised' = TRUE
            /\ UNCHANGED <<w_action, w_step>>
       ELSE IF a = "none"
       THEN /\ w_pc' = "loop_top"
            /\ w_step' = w_step + 1
            /\ UNCHANGED <<w_action, w_raised>>
       ELSE /\ w_pc' = "act"
            /\ w_action' = a
            /\ UNCHANGED <<w_step, w_raised>>
    /\ UNCHANGED <<w_max_steps, w_success, w_collected, w_errors, w_objs,
                   w_print, w_events, w_status>>

\* The try block that executes the action.  `success = False` comes first.
\*   outcome "ok"      the branch did what it is for
\*   outcome "nothing" the branch found nothing to act on (no items, no
\*                     input field, no such element, analysis call failed)
\*   outcome "raises"  a call of the branch raised: the except clause
\*                     records the error and prints it
\* `done` and `analyze` with no collected data `continue`; `done` with data
\* sets success and leaves the loop with `break`.
act(outcome, found) ==
    /\ w_pc = "act"
    /\ IF w_action \in {"done", "analyze"} /\ w_collected = 0
       THEN /\ w_success' = FALSE
            /\ w_pc' = "loop_top"
            /\ w_step' = w_step + 1
            /\ UNCHANGED <<w_collected, w_errors, w_events>>
       ELSE IF w_action = "done"
       THEN /\ w_success' = TRUE
            /\ w_pc' = "cleanup"
            /\ w_events' = emit(w_events, ProgressEvent("task_completed", "info"))
            /\ UNCHANGED <<w_step, w_collected, w_errors>>
       ELSE IF w_action = "other"
       THEN /\ w_success' = FALSE
            /\ w_pc' = "step_end"
            /\ UNCHANGED <<w_step, w_collected, w_errors, w_events>>
       ELSE IF outcome = "raises"
       THEN /\ w_success' = FALSE
            /\ w_errors' = w_errors + 1
            /\ w_events' = emit(w_events, ProgressEvent("action_error", "info"))
            /\ w_pc' = "step_end"
            /\ UNCHANGED <<w_step, w_collected>>
       ELSE /\ w_success' = (outcome = "ok")
            /\ w_collected' = IF w_action = "extract" /\ outcome = "ok"
                              THEN w_collected + found ELSE w_collected
            /\ w_pc' = "step_end"
            /\ UNCHANGED <<w_step, w_errors, w_events>>
    /\ UNCHANGED <<w_max_steps, w_action, w_raised, w_objs, w_print, w_status>>

\* Tail of the loop body: the "Reached maximum steps" report on the last
\* step and the progress summary line.
step_end ==
    /\ w_pc = "step_end"
    /\ w_events' = IF w_step = w_max_steps - 1
                   THEN emit(emit(w_events, ProgressEvent("max_steps", "info")),
                             ProgressEvent("summary", "info"))
                   ELSE emit(w_events, ProgressEvent("summary", "info"))
    /\ w_step' = w_step + 1
    /\ w_pc' = "loop_top"
    /\ UNCHANGED <<w_max_steps, w_action, w_success, w_collected, w_errors,
                   w_raised, w_objs, w_print, w_status>>

\* The inner finally: context.close() and browser.close(), each in its own
\* try/except, so an object is closed unless its close raises (`bad`).  The
\* page goes with its context.  A propagating exception then reaches the
\* outer except; otherwise the two closing lines are printed.
worker_cleanup(bad) ==
    /\ w_pc = "cleanup"
    /\ w_objs' = [o \in WorkerObjects |->
                    IF w_objs[o] = "open" /\ o \in {"context", "browser"} /\ o \notin bad
                    THEN "closed"
                    ELSE IF o = "page" /\ w_objs[o] = "open"
                            /\ (("context" \notin bad /\ w_objs["context"] = "open")
                                \/ "browser" \notin bad)
                    THEN "closed"
                    ELSE w_objs[o]]
    /\ IF w_raised
       THEN w_pc' = "outer_except" /\ UNCHANGED w_events
       ELSE /\ w_pc' = "outer_finally"
            /\ w_events' = emit(w_events, ProgressEvent("saved", "info"))
    /\ UNCHANGED <<w_max_steps, w_step, w_action, w_success, w_collected,
                   w_errors, w_raised, w_print, w_status>>

\* except Exception: the error is recorded and emitted with level "error".
outer_except ==
    /\ w_pc = "outer_except"
    /\ w_errors' = w_errors + 1
    /\ w_events' = emit(w_events, ProgressEvent("unhandled_error", "error"))
    /\ w_pc' = "outer_finally"
    /\ UNCHANGED <<w_max_steps, w_step, w_action, w_success, w_collected,
                   w_raised, w_objs, w_print, w_status>>

\* The outer finally restores builtins.print.
outer_finally ==
    /\ w_pc = "outer_finally"
    /\ w_print' = "original"
    /\ w_pc' = "result"
    /\ UNCHANGED <<w_max_steps, w_step, w_action, w_success, w_collected,
                   w_errors, w_raised, w_objs, w_events, w_status>>

\* status = "completed" if success else "failed"
ResultStatus(success) == IF success THEN "completed" ELSE "failed"

\* The final message of the run.
ResultMessage(success, collected, errors) ==
    IF success /\ collected > 0 THEN "collected_items"
    ELSE IF success THEN "finished_without_data"
    ELSE IF errors > 0 THEN "last_error"
    ELSE "completed_without_success"

\* The AgentResult is built, the final message is emitted, the function
\* returns.
worker_return ==
    /\ w_pc = "result"
    /\ w_status' = ResultStatus(w_success)
    /\ w_events' = emit(w_events,
                        ProgressEvent(ResultMessage(w_success, w_collected, w_errors),
                                      IF w_success THEN "info" ELSE "warning"))
    /\ w_pc' = "returned"
    /\ UNCHANGED <<w_max_steps, w_step, w_action, w_success, w_collected,
                   w_errors, w_raised, w_objs, w_print>>

WInit ==
    /\ w_pc = "idle"
    /\ w_max_steps = 0
    /\ w_step = 0
    /\ w_action = "none"
    /\ w_success = FALSE
    /\ w_collected = 0
    /\ w_errors = 0
    /\ w_raised = FALSE
    /\ w_objs = [o \in WorkerObjects |-> "none"]
    /\ w_print = "original"
    /\ w_events = <<>>
    /\ w_status = "none"

\* ------------------------------------------------------------------------
\* server.py: send_control_event_threadsafe, called by a worker thread
\* through sync_progress_callback and _emit
\* ------------------------------------------------------------------------
\* The session the worker thread runs for.
WorkerSession == "s1"

\* A check that lets every call through.
HasChannelAlways(clients, sid) == TRUE

\* `session_id not in control_websocket_clients` (server.py:672) negated.
HasChannel(clients, sid) == sid \in DOMAIN clients

\* `except Exception` around the scheduling and future.result
\* (server.py:675-687): whatever is raised there is logged.
threadsafe_except_timeout_escapes(exc) ==
    IF exc = "TimeoutError" THEN "raised" ELSE "logged"

threadsafe_except(exc) == "logged"

\* `except Exception` around progress_callback in _emit
\* (adaptive_agent.py:633-640): the failure is printed to stderr.
emit_except(exc) == "logged"

\* _emit hands event number d_calls + 1 to sync_progress_callback, which
\* calls send_control_event_threadsafe: return at once without a channel,
\* otherwise schedule send_control_event on the main loop and wait.
emit_call ==
    /\ d_pc = "idle"
    /\ d_calls < MaxEmits
    /\ d_calls' = d_calls + 1
    /\ IF HasChannel(control_websocket_clients, WorkerSession)
       THEN /\ loop_queue' = Append(loop_queue,
                                    [session |-> WorkerSession,
                                     event |-> ScreenshotEvent(d_calls + 1),
                                     call |-> d_calls + 1])
            /\ d_pc' = "waiting"
            /\ UNCHANGED d_last
       ELSE /\ d_last' = "no_channel"
            /\ UNCHANGED <<loop_queue, d_pc>>
    /\ UNCHANGED <<deliver_raised, emit_raised, ctlVars>>

\* The main loop runs the oldest scheduled send_control_event.  send_ok is
\* whether send_json returns; a failure is logged inside the coroutine.  The
\* thread waiting for this coroutine, if any, gets its result.
loop_run(send_ok) ==
    /\ loop_queue # <<>>
    /\ LET co == Head(loop_queue)
           attached == co.session \in DOMAIN control_websocket_clients
       IN  /\ received' = IF send_ok
                          THEN send_control_event(received,
                                                  control_websocket_clients,
                                                  co.session, co.event)
                          ELSE received
           /\ IF d_pc = "waiting" /\ co.call = d_calls
              THEN /\ d_pc' = "idle"
                   /\ d_last' = IF ~attached THEN "detached"
                                ELSE IF send_ok THEN "sent" ELSE "send_error"
              ELSE UNCHANGED <<d_pc, d_last>>
    /\ loop_queue' = Tail(loop_queue)
    /\ UNCHANGED <<d_calls, deliver_raised, emit_raised, active_sessions,
                   agent_control_state, execute_response, run_agent_task,
                   control_websocket_clients, ws_state, ws_session, inbox,
                   cmds_sent>>

\* future.result(timeout=1.0) gives up: TimeoutError is raised in the worker
\* thread and handled by the two except clauses around it.  The coroutine
\* stays scheduled.
result_timeout ==
    /\ d_pc = "waiting"
    /\ d_pc' = "idle"
    /\ d_last' = "timeout"
    /\ deliver_raised' =
          (deliver_raised \/ threadsafe_except("TimeoutError") = "raised")
    /\ emit_raised' =
          (emit_raised \/ (/\ threadsafe_except("TimeoutError") = "raised"
                           /\ emit_except("TimeoutError") = "raised"))
    /\ UNCHANGED <<d_calls, loop_queue, ctlVars>>

DlInit ==
    /\ d_pc = "idle"
    /\ d_calls = 0
    /\ d_last = "none"
    /\ loop_queue = <<>>
    /\ deliver_raised = FALSE
    /\ emit_raised = FALSE

\* ------------------------------------------------------------------------
\* adaptive_agent.py: the print hook of run_adaptive_agent
\* ------------------------------------------------------------------------
\* The instrumented_print closures a call of the function `p` runs through:
\* each one emits to the callback of its own worker and then calls the
\* original_print that worker saved (adaptive_agent.py:643-648).
RECURSIVE HooksCalled(_)
HooksCalled(p) ==
    IF p = "original" THEN <<>>
    ELSE <<p>> \o HooksCalled(original_print[p])

\* Every callback named in `hooks` gets one event produced by worker w.
GotAfter(got, hooks, w) ==
    [x \in Workers |->
        IF \E i \in 1..Len(hooks) : hooks[i] = x
        THEN Append(got[x], w) ELSE got[x]]

\* run_adaptive_agent is entered: original_print = builtins.print, then
\* builtins.print = instrumented_print (adaptive_agent.py:622, 650).
hook_install(w) ==
    /\ ph_pc[w] = "idle"
    /\ ph_pc' = [ph_pc EXCEPT ![w] = "running"]
    /\ original_print' = [original_print EXCEPT ![w] = builtins_print]
    /\ builtins_print' = w
    /\ UNCHANGED <<ph_got, ph_prints>>

\* A running worker calls print(...): the name is looked up in builtins at
\* the call.
worker_print(w) ==
    /\ ph_pc[w] = "running"
    /\ ph_prints < MaxPrints
    /\ ph_prints' = ph_prints + 1
    /\ ph_got' = GotAfter(ph_got, HooksCalled(builtins_print), w)
    /\ UNCHANGED <<builtins_print, ph_pc, original_print>>

\* A running worker calls its own _emit directly (the screenshot event, the
\* final message).
worker_emit(w) ==
    /\ ph_pc[w] = "running"
    /\ ph_prints < MaxPrints
    /\ ph_prints' = ph_prints + 1
    /\ ph_got' = GotAfter(ph_got, <<w>>, w)
    /\ UNCHANGED <<builtins_print, ph_pc, original_print>>

\* The outer finally: builtins.print = original_print
\* (adaptive_agent.py:1198-1199), and the function returns.
hook_restore(w) ==
    /\ ph_pc[w] = "running"
    /\ ph_pc' = [ph_pc EXCEPT ![w] = "ended"]
    /\ builtins_print' = original_print[w]
    /\ UNCHANGED <<original_print, ph_got, ph_prints>>

PhInit ==
    /\ builtins_print = "original"
    /\ ph_pc = [w \in Workers |-> "idle"]
    /\ original_print = [w \in Workers |-> "original"]
    /\ ph_got = [w \in Workers |-> <<>>]
    /\ ph_prints = 0

\* ------------------------------------------------------------------------
\* backend/server.py: POST /execute/stream, event_generator
\* ------------------------------------------------------------------------
\* The event that ends the stream: the result, or the error when
\* agent_task.result() raises (server.py:318-322).
FinalEvent(task) == IF task = "returned" THEN "final" ELSE "error"

\* agent_task.done()
TaskDone(task) == task \in {"returned", "raised"}

\* loop.run_in_executor(...): the worker starts in its thread
\* (server.py:304-306).
generator_start ==
    /\ es_pc = "start"
    /\ agent_task' = "running"
    /\ es_pc' = "check"
    /\ UNCHANGED <<es_emitted, event_queue, es_streamed>>

\* The worker thread emits an event: progress_handler puts it on the queue
\* (server.py:283-285).
stream_worker_emit ==
    /\ agent_task = "running"
    /\ es_emitted < MaxStreamEvents
    /\ es_emitted' = es_emitted + 1
    /\ event_queue' = Append(event_queue, es_emitted + 1)
    /\ UNCHANGED <<agent_task, es_pc, es_streamed>>

\* run_adaptive_agent returns or an exception leaves it: the future is done.
stream_worker_return(outcome) ==
    /\ agent_task = "running"
    /\ agent_task' = outcome
    /\ UNCHANGED <<es_emitted, event_queue, es_pc, es_streamed>>

\* `if agent_task.done():` yields the final result and breaks
\* (server.py:316-323); otherwise the queue is looked at.
generator_check ==
    /\ es_pc = "check"
    /\ IF TaskDone(agent_task)
       THEN /\ es_streamed' = Append(es_streamed, FinalEvent(agent_task))
            /\ es_pc' = "closed"
       ELSE /\ es_pc' = "drain"
            /\ UNCHANGED es_streamed
    /\ UNCHANGED <<agent_task, es_emitted, event_queue>>

\* `while not event_queue.empty():` one get and one yield
\* (server.py:326-328).
generator_drain ==
    /\ es_pc = "drain"
    /\ IF event_queue = <<>>
       THEN /\ es_pc' = "sleep"
            /\ UNCHANGED <<event_queue, es_streamed>>
       ELSE /\ es_streamed' = Append(es_streamed, Head(event_queue))
            /\ event_queue' = Tail(event_queue)
            /\ UNCHANGED es_pc
    /\ UNCHANGED <<agent_task, es_emitted>>

\* await asyncio.sleep(0.1) (server.py:331)
generator_sleep ==
    /\ es_pc = "sleep"
    /\ es_pc' = "check"
    /\ UNCHANGED <<agent_task, es_emitted, event_queue, es_streamed>>

EsInit ==
    /\ agent_task = "none"
    /\ es_emitted = 0
    /\ event_queue = <<>>
    /\ es_pc = "start"
    /\ es_streamed = <<>>

\* ------------------------------------------------------------------------
\* live_browser_manager.py: LiveBrowserManager and its singleton
\* ------------------------------------------------------------------------
\* _live_browser_instance is None.  gen counts the managers created so far.
NoManager(gen) ==
    [instance |-> FALSE, cdp_session |-> FALSE, is_streaming |-> FALSE,
     frame_callback |-> "none", listeners |-> 0, gen |-> gen]

\* LiveBrowserManager() followed by start(headless=True).  When start raises
\* it has called close(), which leaves cdp_session None; the instance stays
\* assigned (live_browser_manager.py:397-398).
NewManager(gen, start_ok) ==
    [instance |-> TRUE, cdp_session |-> start_ok, is_streaming |-> FALSE,
     frame_callback |-> "none", listeners |-> 0, gen |-> gen + 1]

\* get_live_browser: the manager it leaves in the singleton.
GetLiveBrowser(lb, start_ok) ==
    IF lb.instance THEN lb ELSE NewManager(lb.gen, start_ok)

\* get_live_browser raises exactly when it had to start a browser and the
\* start failed.
GetLiveBrowserRaises(lb, start_ok) == ~lb.instance /\ ~start_ok

\* A call on cdp_session succeeds when the session exists and its browser
\* still answers.
CdpAnswers(lb, alive) == lb.cdp_session /\ alive

\* start_streaming up to its await (live_browser_manager.py:115-135).
\*   "raises"   no cdp_session: RuntimeError
\*   "active"   already streaming: warning and return, the callback of the
\*              caller is not stored
\*   "awaiting" callback stored, is_streaming set, one more listener on
\*              Page.screencastFrame, Page.startScreencast sent
StartStreamingOutcome(lb) ==
    IF ~lb.cdp_session THEN "raises"
    ELSE IF lb.is_streaming THEN "active"
    ELSE "awaiting"

StartStreamingBegin(lb, cb) ==
    IF StartStreamingOutcome(lb) = "awaiting"
    THEN [lb EXCEPT !.frame_callback = cb, !.is_streaming = TRUE,
                    !.listeners = @ + 1]
    ELSE lb

\* start_streaming after the await: on failure is_streaming is reset and the
\* exception is raised again (live_browser_manager.py:148-151).
StartStreamingEnd(lb, answered) ==
    IF answered THEN lb ELSE [lb EXCEPT !.is_streaming = FALSE]

\* stop_streaming after Page.stopScreencast: the flag and the callback are
\* cleared only when the call did not raise (live_browser_manager.py:199-209).
StopStreamingEnd(lb, raised) ==
    IF raised THEN lb
    ELSE [lb EXCEPT !.is_streaming = FALSE, !.frame_callback = "none"]

\* stop_streaming as one call: nothing when not streaming; no CDP call when
\* there is no session.
StopStreaming(lb, alive) ==
    IF ~lb.is_streaming THEN lb
    ELSE StopStreamingEnd(lb, lb.cdp_session /\ ~alive)

\* close_live_browser: close() and the singleton is cleared.
CloseLiveBrowser(lb) == NoManager(lb.gen)

\* The callback a closed manager object is left with: close() has called
\* stop_streaming, which keeps the callback when Page.stopScreencast raised.
ClosedCallback(lb, alive) == StopStreaming(lb, alive).frame_callback

\* The browser behind the singleton after get_live_browser: a browser that
\* was just launched answers (when the launch succeeded) and has no
\* screencast and no frame outstanding.
AliveAfterGet(lb, start_ok) == IF lb.instance THEN source_alive ELSE start_ok
ScreencastAfterGet(lb) == IF lb.instance THEN screencast_on ELSE FALSE
AckAfterGet(lb) == IF lb.instance THEN awaiting_ack ELSE 0

\* ------------------------------------------------------------------------
\* server.py: /ws/browser (websocket_browser_stream), startup_event and
\* POST /execute/stream, as far as they touch the frame channel
\* ------------------------------------------------------------------------
\* startup_event: the live browser is started; a failure is only logged.
startup_event(start_ok) ==
    /\ ~app_started
    /\ app_started' = TRUE
    /\ live_browser' = GetLiveBrowser(live_browser, start_ok)
    /\ source_alive' = AliveAfterGet(live_browser, start_ok)
    /\ screencast_on' = ScreencastAfterGet(live_browser)
    /\ awaiting_ack' = AckAfterGet(live_browser)
    /\ UNCHANGED <<connected_websocket_clients, v_pc, v_manager, v_sink,
                   v_frames, frames_emitted, frame_tasks, stream_runs>>

\* The finally block of websocket_browser_stream up to the await inside
\* stop_streaming: the viewer leaves the list; when the list is empty the
\* manager is fetched (and launched when there is none) and stop_streaming
\* is called.  clients is the list before the removal, lb the manager.
stream_finally(v, clients, lb, start_ok) ==
    LET rest == clients \ {v}
        m == GetLiveBrowser(lb, start_ok)
    IN  /\ connected_websocket_clients' = rest
        /\ IF rest # {}
           THEN /\ live_browser' = lb
                /\ v_pc' = [v_pc EXCEPT ![v] = "closed"]
                /\ UNCHANGED <<v_manager, source_alive, screencast_on,
                               awaiting_ack>>
           ELSE /\ source_alive' = AliveAfterGet(lb, start_ok)
                /\ screencast_on' = ScreencastAfterGet(lb)
                /\ awaiting_ack' = AckAfterGet(lb)
                /\ IF m.is_streaming /\ m.cdp_session
                   THEN /\ live_browser' = m
                        /\ v_pc' = [v_pc EXCEPT ![v] = "stopping"]
                        /\ v_manager' = [v_manager EXCEPT ![v] = m.gen]
                   ELSE /\ live_browser' = StopStreaming(m, TRUE)
                        /\ v_pc' = [v_pc EXCEPT ![v] = "closed"]
                        /\ UNCHANGED v_manager

\* A viewer connects: accept, append to the list, get_live_browser and
\* start_streaming up to its await (server.py:379-404).
stream_connect(v, start_ok) ==
    /\ app_started
    /\ v_pc[v] = "new"
    /\ LET clients == connected_websocket_clients \cup {v}
           m == GetLiveBrowser(live_browser, start_ok)
           outcome == IF GetLiveBrowserRaises(live_browser, start_ok)
                      THEN "raises" ELSE StartStreamingOutcome(m)
       IN  CASE outcome = "raises" ->
                  stream_finally(v, clients, m, start_ok)
             [] outcome = "active" ->
                  /\ connected_websocket_clients' = clients
                  /\ live_browser' = m
                  /\ v_pc' = [v_pc EXCEPT ![v] = "open"]
                  /\ UNCHANGED <<v_manager, source_alive, screencast_on,
                                 awaiting_ack>>
             [] outcome = "awaiting" ->
                  /\ connected_websocket_clients' = clients
                  /\ live_browser' = StartStreamingBegin(m, v)
                  /\ v_pc' = [v_pc EXCEPT ![v] = "starting"]
                  /\ v_manager' = [v_manager EXCEPT ![v] = m.gen]
                  /\ source_alive' = AliveAfterGet(live_browser, start_ok)
                  /\ screencast_on' = ScreencastAfterGet(live_browser)
                  /\ awaiting_ack' = AckAfterGet(live_browser)
    /\ UNCHANGED <<app_started, v_sink, v_frames, frames_emitted,
                   frame_tasks, stream_runs>>

\* The manager a viewer awaits is still the singleton.
IsSingleton(gen) == live_browser.instance /\ live_browser.gen = gen

\* Page.startScreencast returns: the viewer is told "connected" and enters
\* its command loop, or start_streaming raises and the handler leaves
\* through its finally block.
stream_started(v, start_ok) ==
    /\ v_pc[v] = "starting"
    /\ IF IsSingleton(v_manager[v]) /\ CdpAnswers(live_browser, source_alive)
       THEN /\ screencast_on' = TRUE
            /\ v_pc' = [v_pc EXCEPT ![v] = "open"]
            /\ UNCHANGED <<live_browser, connected_websocket_clients,
                           v_manager, source_alive, awaiting_ack>>
       ELSE stream_finally(v, connected_websocket_clients,
                           IF IsSingleton(v_manager[v])
                           THEN StartStreamingEnd(live_browser, FALSE)
                           ELSE live_browser,
                           start_ok)
    /\ UNCHANGED <<app_started, v_sink, v_frames, frames_emitted,
                   frame_tasks, stream_runs>>

\* The viewer disconnects (or its command loop raises).
stream_disconnect(v, start_ok) ==
    /\ v_pc[v] = "open"
    /\ stream_finally(v, connected_websocket_clients, live_browser, start_ok)
    /\ UNCHANGED <<app_started, v_sink, v_frames, frames_emitted,
                   frame_tasks, stream_runs>>

\* Page.stopScreencast returns or raises; the handler ends either way.
stream_stopped(v) ==
    /\ v_pc[v] = "stopping"
    /\ v_pc' = [v_pc EXCEPT ![v] = "closed"]
    /\ IF IsSingleton(v_manager[v])
       THEN /\ live_browser' =
                  StopStreamingEnd(live_browser,
                                   ~CdpAnswers(live_browser, source_alive))
            /\ screencast_on' =
                  (screencast_on /\ ~CdpAnswers(live_browser, source_alive))
       ELSE UNCHANGED <<live_browser, screencast_on>>
    /\ UNCHANGED <<app_started, source_alive, connected_websocket_clients,
                   v_manager, v_sink, v_frames, frames_emitted, awaiting_ack,
                   frame_tasks, stream_runs>>

\* The source emits Page.screencastFrame once the previous frame has been
\* acknowledged; every registered listener gets its own _handle_frame call.
screencast_frame ==
    /\ live_browser.instance
    /\ CdpAnswers(live_browser, source_alive)
    /\ screencast_on
    /\ awaiting_ack = 0
    /\ frames_emitted < MaxFrames
    /\ frames_emitted' = frames_emitted + 1
    /\ awaiting_ack' = frames_emitted + 1
    /\ frame_tasks' = frame_tasks \cup
            {[frame |-> frames_emitted + 1, listener |-> k, stage |-> "ack",
              cb |-> "singleton"] : k \in 1..live_browser.listeners}
    /\ UNCHANGED <<app_started, live_browser, source_alive, screencast_on,
                   connected_websocket_clients, v_pc, v_manager, v_sink,
                   v_frames, stream_runs>>

\* _handle_frame up to its first await: Page.screencastFrameAck is sent
\* before anything is dispatched (live_browser_manager.py:166).  When the
\* call raises the handler logs the error and ends.
handle_frame_ack(t) ==
    /\ t \in frame_tasks
    /\ t.stage = "ack"
    /\ IF t.cb = "singleton" /\ CdpAnswers(live_browser, source_alive)
       THEN /\ frame_tasks' = (frame_tasks \ {t}) \cup
                                {[t EXCEPT !.stage = "dispatch"]}
            /\ awaiting_ack' = IF awaiting_ack = t.frame THEN 0
                               ELSE awaiting_ack
       ELSE /\ frame_tasks' = frame_tasks \ {t}
            /\ UNCHANGED awaiting_ack
    /\ UNCHANGED <<app_started, live_browser, source_alive, screencast_on,
                   connected_websocket_clients, v_pc, v_manager, v_sink,
                   v_frames, frames_emitted, stream_runs>>

\* The callback _handle_frame finds when it dispatches.
CallbackOf(t) ==
    IF t.cb = "singleton" THEN live_browser.frame_callback ELSE t.cb

\* send_frame_to_client reaches the viewer: its socket is open and send_json
\* does not raise.  A failure is logged inside send_frame_to_client.
Delivered(v) == v \in Viewers /\ v_pc[v] \in {"starting", "open"}
                /\ v_sink[v] = "ok"

\* _handle_frame after the acknowledgement: the frame goes to the one stored
\* callback, if any (live_browser_manager.py:181-186).
handle_frame_dispatch(t) ==
    /\ t \in frame_tasks
    /\ t.stage = "dispatch"
    /\ frame_tasks' = frame_tasks \ {t}
    /\ v_frames' = IF Delivered(CallbackOf(t))
                   THEN [v_frames EXCEPT
                           ![CallbackOf(t)] = Append(@, t.frame)]
                   ELSE v_frames
    /\ UNCHANGED <<app_started, live_browser, source_alive, screencast_on,
                   connected_websocket_clients, v_pc, v_manager, v_sink,
                   frames_emitted, awaiting_ack, stream_runs>>

\* The connection of a viewer breaks without its handler noticing yet:
\* send_json raises from now on.
sink_breaks(v) ==
    /\ v_pc[v] = "open"
    /\ v_sink[v] = "ok"
    /\ v_sink' = [v_sink EXCEPT ![v] = "broken"]
    /\ UNCHANGED <<app_started, live_browser, source_alive, screencast_on,
                   connected_websocket_clients, v_pc, v_manager, v_frames,
                   frames_emitted, awaiting_ack, frame_tasks, stream_runs>>

\* The browser behind cdp_session dies or the session is lost.
source_lost ==
    /\ CdpAnswers(live_browser, source_alive)
    /\ source_alive' = FALSE
    /\ UNCHANGED <<app_started, live_browser, screencast_on,
                   connected_websocket_clients, v_pc, v_manager, v_sink,
                   v_frames, frames_emitted, awaiting_ack, frame_tasks,
                   stream_runs>>

\* POST /execute/stream: close_live_browser, then the worker is started
\* (server.py:272-279).  _handle_frame calls of the closed manager keep its
\* callback.
execute_stream ==
    /\ app_started
    /\ stream_runs < MaxStreamRuns
    /\ stream_runs' = stream_runs + 1
    /\ IF live_browser.instance
       THEN /\ live_browser' = CloseLiveBrowser(live_browser)
            /\ source_alive' = FALSE
            /\ screencast_on' = FALSE
            /\ awaiting_ack' = 0
            /\ frame_tasks' =
                  {[t EXCEPT !.cb = IF @ = "singleton"
                                    THEN ClosedCallback(live_browser,
                                                        source_alive)
                                    ELSE @] : t \in frame_tasks}
       ELSE UNCHANGED <<live_browser, source_alive, screencast_on,
                        awaiting_ack, frame_tasks>>
    /\ UNCHANGED <<app_started, connected_websocket_clients, v_pc, v_manager,
                   v_sink, v_frames, frames_emitted>>

FrInit ==
    /\ app_started = FALSE
    /\ live_browser = NoManager(0)
    /\ source_alive = FALSE
    /\ screencast_on = FALSE
    /\ connected_websocket_clients = {}
    /\ v_pc = [v \in Viewers |-> "new"]
    /\ v_manager = [v \in Viewers |-> 0]
    /\ v_sink = [v \in Viewers |-> "ok"]
    /\ v_frames = [v \in Viewers |-> <<>>]
    /\ frames_emitted = 0
    /\ awaiting_ack = 0
    /\ frame_tasks = {}
    /\ stream_runs = 0

\* ------------------------------------------------------------------------
\* test_loop_detection.py: LoopDetector
\* ------------------------------------------------------------------------
\* LoopDetector.__init__
max_history == 5
loop_threshold == 3
\* The length below which detect_visual_loop answers False at once.
MinHistory == 3

\* Screenshots, and the 16 hex digits _hash_screenshot keeps of their md5.
\* Equal bytes give equal fingerprints; shot_a and shot_a2 are different
\* bytes whose truncated digests agree.
Screenshots == {"shot_a", "shot_a2", "shot_b", "shot_c"}
hash_screenshot(shot) ==
    CASE shot \in {"shot_a", "shot_a2"} -> "fp_a"
      [] shot = "shot_b" -> "fp_b"
      [] shot = "shot_c" -> "fp_c"

\* list.count
Count(seq, x) == Cardinality({i \in 1..Len(seq) : seq[i] = x})

\* A history whose overlong list loses its newest entry (pop() for pop(0)).
HistoryAfterEvictsNewest(hashes, h) ==
    IF Len(hashes) + 1 > self_max_history THEN hashes
    ELSE Append(hashes, h)

\* The history after the append and the pop(0) of an overlong list.
HistoryAfter(hashes, h) ==
    IF Len(hashes) + 1 > self_max_history THEN Tail(Append(hashes, h))
    ELSE Append(hashes, h)

\* A detector that asks for more than loop_threshold occurrences.
LoopDetectedStrict(hashes, h) ==
    IF Len(hashes) < MinHistory THEN FALSE
    ELSE Count(hashes, h) > self_loop_threshold

\* A detector that keeps answering True once it has answered True.
LoopDetectedLatching(hashes, h) ==
    \/ ld_returned
    \/ IF Len(hashes) < MinHistory THEN FALSE
       ELSE Count(hashes, h) >= self_loop_threshold

\* The value detect_visual_loop returns for the updated history: the length
\* is compared with the literal 3, the count with self.loop_threshold.
LoopDetected(hashes, h) ==
    IF Len(hashes) < MinHistory THEN FALSE
    ELSE Count(hashes, h) >= self_loop_threshold

detect_visual_loop(shot) ==
    /\ Len(ld_observed) < MaxObservations
    /\ LET h == hash_screenshot(shot)
           hashes == HistoryAfter(screenshot_hashes, h)
       IN /\ screenshot_hashes' = hashes
          /\ ld_returned' = LoopDetected(hashes, h)
          /\ ld_returns' = Append(ld_returns, LoopDetected(hashes, h))
          /\ ld_observed' = Append(ld_observed, h)
    /\ UNCHANGED <<self_max_history, self_loop_threshold, last_action,
                   loop_break_attempts, ld_suggested>>

\* The attributes __init__ creates are plain instance attributes: a caller
\* gives a fresh detector another threshold and capacity by assigning them.
set_attributes(threshold, capacity) ==
    /\ ld_observed = <<>>
    /\ self_loop_threshold = loop_threshold
    /\ self_max_history = max_history
    /\ <<threshold, capacity>> # <<loop_threshold, max_history>>
    /\ self_loop_threshold' = threshold
    /\ self_max_history' = capacity
    /\ UNCHANGED <<screenshot_hashes, ld_observed, ld_returned, ld_returns,
                   last_action, loop_break_attempts, ld_suggested>>

\* Python's None as the value of last_action.
None == "<None>"

\* Actions the agent records, as the strings it passes to record_action.
RecordedActions == {"scroll down", "Click 5", "type search query",
                    "goto https://example.com", "type click here"}

\* What the action is: the first word of the string, lowercased.
Verb(action) ==
    CASE action = "scroll down" -> "scroll"
      [] action = "Click 5" -> "click"
      [] action \in {"type search query", "type click here"} -> "type"
      [] OTHER -> "other"

\* `word in self.last_action.lower()`: the words among scroll, click, type
\* that occur anywhere in the lowercased string.
KeywordsIn(action) ==
    CASE action = "scroll down" -> {"scroll"}
      [] action = "Click 5" -> {"click"}
      [] action = "type search query" -> {"type"}
      [] action = "type click here" -> {"type", "click"}
      [] OTHER -> {}

\* The list get_alternative_action builds: the first branch of the
\* if/elif chain whose word occurs in last_action decides; the default
\* list when last_action is None or no word occurs.
alternatives(action) ==
    IF action # None /\ "scroll" \in KeywordsIn(action)
    THEN <<"click_random", "go_back">>
    ELSE IF action # None /\ "click" \in KeywordsIn(action)
    THEN <<"scroll_down", "go_back">>
    ELSE IF action # None /\ "type" \in KeywordsIn(action)
    THEN <<"click_random", "scroll_down">>
    ELSE <<"click_random", "scroll_down", "go_back">>

\* An index taken from the counter before its increment.
ChosenBeforeIncrement(alts, attempts) ==
    alts[((attempts - 1) % Len(alts)) + 1]

\* alternatives[self.loop_break_attempts % len(alternatives)], the counter
\* already incremented; Python lists count from 0, sequences from 1.
Chosen(alts, attempts) == alts[(attempts % Len(alts)) + 1]

get_alternative_action ==
    /\ Len(ld_suggested) < MaxSuggestions
    /\ loop_break_attempts' = loop_break_attempts + 1
    /\ ld_suggested' =
          Append(ld_suggested,
                 [action |-> last_action,
                  chosen |-> Chosen(alternatives(last_action),
                                    loop_break_attempts + 1)])
    /\ UNCHANGED <<screenshot_hashes, ld_observed, ld_returned, ld_returns,
                   self_max_history, self_loop_threshold, last_action>>

\* A record_action that also starts the attempt counter afresh.
record_action_resets_counter(action) ==
    /\ last_action' = action
    /\ loop_break_attempts' = 0
    /\ UNCHANGED <<screenshot_hashes, ld_observed, ld_returned, ld_returns,
                   self_max_history, self_loop_threshold, ld_suggested>>

\* record_action (test_loop_detection.py:64-66)
record_action(action) ==
    /\ last_action' = action
    /\ UNCHANGED <<screenshot_hashes, ld_observed, ld_returned, ld_returns,
                   self_max_history, self_loop_threshold,
                   loop_break_attempts, ld_suggested>>

\* reset (test_phase1_checkpoint.py:75-79)
reset ==
    /\ screenshot_hashes' = <<>>
    /\ last_action' = None
    /\ loop_break_attempts' = 0
    /\ UNCHANGED <<ld_observed, ld_returned, ld_returns, self_max_history,
                   self_loop_threshold, ld_suggested>>

LdInit ==
    /\ screenshot_hashes = <<>>
    /\ ld_observed = <<>>
    /\ ld_returned = FALSE
    /\ ld_returns = <<>>
    /\ self_max_history = max_history
    /\ self_loop_threshold = loop_threshold
    /\ last_action = None
    /\ loop_break_attempts = 0
    /\ ld_suggested = <<>>

\* ------------------------------------------------------------------------
\* Specifications
\* ------------------------------------------------------------------------
vars == <<ctlVars, sdVars, wVars, ldVars, frVars, dlVars, phVars, esVars>>

\* What the actions of one component leave alone.
notCtlVars == <<sdVars, wVars, ldVars, frVars, dlVars, phVars, esVars>>
notWVars == <<ctlVars, sdVars, ldVars, frVars, dlVars, phVars, esVars>>
notSdVars == <<ctlVars, wVars, ldVars, frVars, dlVars, phVars, esVars>>
notLdVars == <<ctlVars, sdVars, wVars, frVars, dlVars, phVars, esVars>>
notFrVars == <<ctlVars, sdVars, wVars, ldVars, dlVars, phVars, esVars>>
notDlVars == <<sdVars, wVars, ldVars, frVars, phVars, esVars>>
notPhVars == <<ctlVars, sdVars, wVars, ldVars, frVars, dlVars, esVars>>
notEsVars == <<ctlVars, sdVars, wVars, ldVars, frVars, dlVars, phVars>>

CtlInit ==
    /\ active_sessions = EmptyDict
    /\ agent_control_state = EmptyDict
    /\ execute_response = [s \in SessionIds |-> "none"]
    /\ run_agent_task = [s \in SessionIds |-> "none"]
    /\ control_websocket_clients = EmptyDict
    /\ ws_state = [c \in Conns |-> "closed"]
    /\ ws_session = [c \in Conns |-> "unknown"]
    /\ inbox = [c \in Conns |-> <<>>]
    /\ received = [c \in Conns |-> <<>>]
    /\ cmds_sent = 0

Init ==
    /\ CtlInit /\ SdInit /\ WInit /\ LdInit /\ FrInit /\ DlInit
    /\ PhInit /\ EsInit

\* The server: POST /execute and the control channel.
Execute ==
    /\ \E s \in SessionIds : execute(s)
    /\ UNCHANGED notCtlVars
Accept ==
    /\ \E c \in Conns, q \in QueryIds : websocket_accept(c, q)
    /\ UNCHANGED notCtlVars
ClientSend ==
    /\ \E c \in Conns, m \in ClientMessages : client_send(c, m)
    /\ UNCHANGED notCtlVars
Receive ==
    /\ \E c \in Conns : websocket_receive(c)
    /\ UNCHANGED notCtlVars
Disconnect ==
    /\ \E c \in Conns : websocket_disconnect(c)
    /\ UNCHANGED notCtlVars

Next == Execute \/ Accept \/ ClientSend \/ Receive \/ Disconnect

Spec == Init /\ [][Next]_vars

\* The server's event loop keeps serving: a message waiting on an open
\* connection is eventually received by its handler.
FairSpec == Spec /\ WF_vars(Receive)

\* One run of run_adaptive_agent.
RunAdaptiveAgent ==
    /\ \E n \in 0..MaxSteps : run_adaptive_agent(n)
    /\ UNCHANGED notWVars
WorkerSetup ==
    /\ \E db_ok \in BOOLEAN, launched \in 0..Len(LaunchOrder) :
          worker_setup(db_ok, launched)
    /\ UNCHANGED notWVars
LoopTop ==
    /\ \E page_ok \in BOOLEAN, found \in 0..1 :
          w_collected + found <= MaxItems /\ loop_top(page_ok, found)
    /\ UNCHANGED notWVars
Screenshot ==
    /\ \E ok \in BOOLEAN : screenshot(ok)
    /\ UNCHANGED notWVars
Oracle ==
    /\ \E ok \in BOOLEAN, a \in OracleActions : oracle(ok, a)
    /\ UNCHANGED notWVars
Act ==
    /\ \E outcome \in {"ok", "nothing", "raises"}, found \in 0..1 :
          w_collected + found <= MaxItems /\ act(outcome, found)
    /\ UNCHANGED notWVars
StepEnd == step_end /\ UNCHANGED notWVars
WorkerCleanup ==
    /\ \E bad \in SUBSET {"context", "browser"} : worker_cleanup(bad)
    /\ UNCHANGED notWVars
OuterExcept == outer_except /\ UNCHANGED notWVars
OuterFinally == outer_finally /\ UNCHANGED notWVars
WorkerReturn == worker_return /\ UNCHANGED notWVars

WNext ==
    \/ RunAdaptiveAgent \/ WorkerSetup \/ LoopTop \/ Screenshot \/ Oracle
    \/ Act \/ StepEnd \/ WorkerCleanup \/ OuterExcept \/ OuterFinally
    \/ WorkerReturn

SpecWorker == Init /\ [][WNext]_vars

\* The GracefulShutdown object on its own.
HandleShutdown == handle_shutdown /\ UNCHANGED notSdVars
SetBrowserRefs ==
    /\ \E given \in SUBSET Resources : \E bad \in SUBSET given :
          set_browser_refs(given, bad)
    /\ UNCHANGED notSdVars
CleanupBegin == cleanup_begin /\ UNCHANGED notSdVars
CleanupBlock ==
    /\ \E r \in Resources : cleanup_block(r)
    /\ UNCHANGED notSdVars

SdNext == HandleShutdown \/ SetBrowserRefs \/ CleanupBegin \/ CleanupBlock

SpecShutdown == Init /\ [][SdNext]_vars

\* One LoopDetector shown a series of screenshots.
DetectVisualLoop ==
    /\ \E shot \in Screenshots : detect_visual_loop(shot)
    /\ UNCHANGED notLdVars

LdNext == DetectVisualLoop

SpecLoop == Init /\ [][LdNext]_vars

\* Two workers started by two /execute/stream requests, in any interleaving.
HookInstall == (\E w \in Workers : hook_install(w)) /\ UNCHANGED notPhVars
WorkerPrint == (\E w \in Workers : worker_print(w)) /\ UNCHANGED notPhVars
WorkerEmit == (\E w \in Workers : worker_emit(w)) /\ UNCHANGED notPhVars
HookRestore == (\E w \in Workers : hook_restore(w)) /\ UNCHANGED notPhVars

PhNext == HookInstall \/ WorkerPrint \/ WorkerEmit \/ HookRestore

SpecPrintHook == Init /\ [][PhNext]_vars

\* One /execute/stream request: the generator on the event loop and the
\* worker in its thread.
GeneratorStart == generator_start /\ UNCHANGED notEsVars
StreamWorkerEmit == stream_worker_emit /\ UNCHANGED notEsVars
StreamWorkerReturn ==
    /\ \E outcome \in {"returned", "raised"} : stream_worker_return(outcome)
    /\ UNCHANGED notEsVars
GeneratorCheck == generator_check /\ UNCHANGED notEsVars
GeneratorDrain == generator_drain /\ UNCHANGED notEsVars
GeneratorSleep == generator_sleep /\ UNCHANGED notEsVars

EsNext ==
    \/ GeneratorStart \/ StreamWorkerEmit \/ StreamWorkerReturn
    \/ GeneratorCheck \/ GeneratorDrain \/ GeneratorSleep

SpecStream == Init /\ [][EsNext]_vars

\* The control channel with clients that also send frames that are not JSON
\* objects and that never hang up themselves: every close of a connection is
\* the server's.
PrNext ==
    \/ Execute \/ Accept \/ ClientSend \/ Receive
    \/ (\E c \in Conns : client_send_malformed(c)) /\ UNCHANGED notCtlVars
    \/ (\E c \in Conns : websocket_receive_malformed(c))
          /\ UNCHANGED notCtlVars

SpecProtocol == Init /\ [][PrNext]_vars

\* One LoopDetector whose threshold and capacity the caller may set before
\* the first screenshot.
SetAttributes ==
    /\ \E threshold \in 1..MaxThreshold, capacity \in 1..MaxCapacity :
          set_attributes(threshold, capacity)
    /\ UNCHANGED notLdVars

LdSetNext == SetAttributes \/ DetectVisualLoop

SpecLoopSettings == Init /\ [][LdSetNext]_vars

\* One LoopDetector through stuck episodes: the same page is observed again
\* and again, actions are recorded, alternatives are asked for, and the
\* detector may be reset.
SgNext ==
    \/ (\E action \in RecordedActions : record_action(action))
          /\ UNCHANGED notLdVars
    \/ get_alternative_action /\ UNCHANGED notLdVars
    \/ reset /\ UNCHANGED notLdVars
    \/ detect_visual_loop("shot_a") /\ UNCHANGED notLdVars

SpecSuggest == Init /\ [][SgNext]_vars

\* The frame channel: viewers of /ws/browser, the live browser and
\* POST /execute/stream.
StartupEvent ==
    /\ \E start_ok \in BOOLEAN : startup_event(start_ok)
    /\ UNCHANGED notFrVars

StreamConnect ==
    /\ \E v \in Viewers, start_ok \in BOOLEAN : stream_connect(v, start_ok)
    /\ UNCHANGED notFrVars

StreamStarted ==
    /\ \E v \in Viewers, start_ok \in BOOLEAN : stream_started(v, start_ok)
    /\ UNCHANGED notFrVars

StreamDisconnect ==
    /\ \E v \in Viewers, start_ok \in BOOLEAN :
          stream_disconnect(v, start_ok)
    /\ UNCHANGED notFrVars

StreamStopped ==
    /\ \E v \in Viewers : stream_stopped(v)
    /\ UNCHANGED notFrVars

ScreencastFrame ==
    /\ screencast_frame
    /\ UNCHANGED notFrVars

HandleFrameAck ==
    /\ \E t \in frame_tasks : handle_frame_ack(t)
    /\ UNCHANGED notFrVars

HandleFrameDispatch ==
    /\ \E t \in frame_tasks : handle_frame_dispatch(t)
    /\ UNCHANGED notFrVars

SinkBreaks ==
    /\ \E v \in Viewers : sink_breaks(v)
    /\ UNCHANGED notFrVars

SourceLost ==
    /\ source_lost
    /\ UNCHANGED notFrVars

ExecuteStream ==
    /\ execute_stream
    /\ UNCHANGED notFrVars

FrNext ==
    \/ StartupEvent \/ StreamConnect \/ StreamStarted \/ StreamDisconnect
    \/ StreamStopped \/ ScreencastFrame \/ HandleFrameAck
    \/ HandleFrameDispatch \/ SinkBreaks \/ SourceLost \/ ExecuteStream

SpecFrames == Init /\ [][FrNext]_vars

\* One worker thread delivering events for its session while control
\* channels attach and detach.
EmitCall ==
    /\ emit_call
    /\ UNCHANGED notDlVars

LoopRun ==
    /\ \E send_ok \in BOOLEAN : loop_run(send_ok)
    /\ UNCHANGED notDlVars

ResultTimeout ==
    /\ result_timeout
    /\ UNCHANGED notDlVars

DlNext == Accept \/ Disconnect \/ EmitCall \/ LoopRun \/ ResultTimeout

SpecDeliver == Init /\ [][DlNext]_vars

\* ------------------------------------------------------------------------
\* Properties of the control channel
\* ------------------------------------------------------------------------
TerminalPhases == {"STOPPED", "COMPLETE", "FAILED"}

\* The phases of the status events of a log, in order.
RECURSIVE StatusPhases(_)
StatusPhases(log) ==
    IF log = <<>> THEN <<>>
    ELSE IF Head(log).type = "status"
         THEN <<Head(log).phase>> \o StatusPhases(Tail(log))
         ELSE StatusPhases(Tail(log))

\* How many status events of a log carry the phase.
PhaseCount(log, phase) ==
    Cardinality({i \in 1..Len(StatusPhases(log)) : StatusPhases(log)[i] = phase})

\* The acknowledgments of a log, in order: command_ack and pong events.
RECURSIVE AckEvents(_)
AckEvents(log) ==
    IF log = <<>> THEN <<>>
    ELSE IF Head(log).type \in {"command_ack", "pong"}
         THEN <<Head(log)>> \o AckEvents(Tail(log))
         ELSE AckEvents(Tail(log))

\* Edges of the state machine IDLE -> STARTING -> RUNNING <-> PAUSED ->
\* terminal.
PhaseEdges ==
    {<<"IDLE", "STARTING">>, <<"STARTING", "RUNNING">>,
     <<"RUNNING", "PAUSED">>, <<"PAUSED", "RUNNING">>}
        \cup {<<p, t>> : p \in {"STARTING", "RUNNING", "PAUSED"}, t \in TerminalPhases}

IsStatusPath(phases) ==
    /\ phases # <<>> => phases[1] \in {"IDLE", "STARTING"}
    /\ \A i \in 1..(Len(phases) - 1) : <<phases[i], phases[i + 1]>> \in PhaseEdges

\* The connection is attached to a session POST /execute has created.
Attached(c, s) ==
    /\ ws_state[c] = "open"
    /\ ws_session[c] = s
    /\ Registered(agent_control_state, s)

\* C1: the status events a session's control channel carries form a path of
\* IDLE -> STARTING -> RUNNING <-> PAUSED -> {STOPPED | COMPLETE | FAILED}:
\* no PAUSED or RUNNING before STARTING or after a terminal phase, and no
\* second terminal phase.
StatusEventsFormPath ==
    \A c \in Conns : \A s \in SessionIds :
        Attached(c, s) => IsStatusPath(StatusPhases(received[c]))

\* The step in which the handler of connection c takes the oldest message.
ReceiveStep(c) ==
    /\ ws_state[c] = "open"
    /\ ws_state'[c] = "open"
    /\ inbox[c] # <<>>
    /\ inbox'[c] = Tail(inbox[c])

\* C5: pause is idempotent: a pause of a session that is already paused is
\* only acknowledged and sends no further PAUSED status, so that pause,
\* pause, resume yields one PAUSED and one RUNNING status.
SecondPauseIsNoOp ==
    [][\A c \in Conns :
          (/\ ReceiveStep(c)
           /\ Head(inbox[c]).type = "pause"
           /\ Registered(agent_control_state, ws_session[c])
           /\ agent_control_state[ws_session[c]].paused)
          => \A d \in Conns :
                PhaseCount(received'[d], "PAUSED") = PhaseCount(received[d], "PAUSED")
      ]_vars

\* The commands of the control channel and the acknowledgment each is due.
Commands == {"pause", "resume", "stop", "nudge", "ping"}
ExpectedAck(m) ==
    IF m.type = "ping" THEN [type |-> "pong"]
    ELSE IF m.type = "nudge"
    THEN [type |-> "command_ack", command |-> "nudge", text |-> m.text]
    ELSE [type |-> "command_ack", command |-> m.type]

\* C9: every command received on the control channel (pause, resume, stop,
\* nudge, ping) produces exactly one acknowledgment to its sender, the one
\* for that command, and none to any other connection.
EveryCommandAckedOnce ==
    [][\A c \in Conns :
          (ReceiveStep(c) /\ Head(inbox[c]).type \in Commands)
          => /\ AckEvents(received'[c])
                  = Append(AckEvents(received[c]), ExpectedAck(Head(inbox[c])))
             /\ \A d \in Conns \ {c} :
                  AckEvents(received'[d]) = AckEvents(received[d])
      ]_vars

\* A connection attached to a created session has had a pause and a second
\* command acknowledged, the pause with its PAUSED status beside the ack.
WitnessCommandsAcked ==
    \E c \in Conns : \E s \in SessionIds :
        /\ Attached(c, s)
        /\ Len(AckEvents(received[c])) >= 2
        /\ AckEvents(received[c])[1] = [type |-> "command_ack", command |-> "pause"]
        /\ PhaseCount(received[c], "PAUSED") = 1

\* The step in which the handler of connection c ends and cleans up.
DisconnectStep(c) == ws_state[c] = "open" /\ ws_state'[c] = "closed"

\* The step in which connection c is accepted.
AcceptStep(c) == ws_state[c] = "closed" /\ ws_state'[c] = "open"

\* C13: disconnecting a control channel changes nothing but the channel
\* registry: the control-state records, the sessions and their background
\* work and the other connections are as before; and an event sent while
\* the session has no channel is dropped, not queued: it reaches no
\* connection then, and a channel attached later starts with IDLE alone.
DisconnectOnlyChangesRegistry ==
    [][\A c \in Conns :
          /\ DisconnectStep(c)
                => /\ agent_control_state' = agent_control_state
                   /\ active_sessions' = active_sessions
                   /\ execute_response' = execute_response
                   /\ run_agent_task' = run_agent_task
                   /\ wVars' = wVars
                   /\ DOMAIN control_websocket_clients'
                        = DOMAIN control_websocket_clients \ {ws_session[c]}
                   /\ \A d \in Conns \ {c} :
                        received'[d] = received[d] /\ ws_state'[d] = ws_state[d]
          /\ (ReceiveStep(c) /\ ws_session[c] \notin DOMAIN control_websocket_clients)
                => \A d \in Conns : StatusPhases(received'[d]) = StatusPhases(received[d])
          /\ AcceptStep(c) => received'[c] = <<StatusEvent("IDLE")>>
      ]_vars

\* A session was paused over a channel that has since disconnected: its
\* record is still there, paused, and no channel is attached.
WitnessDisconnectedWhilePaused ==
    \E s \in SessionIds :
        /\ Registered(agent_control_state, s)
        /\ agent_control_state[s].paused
        /\ s \notin DOMAIN control_websocket_clients
        /\ \A c \in Conns : ws_state[c] = "closed"

\* The events of the scenario, each named by its phase or its type.
ScenarioTrace ==
    <<"STARTING", "RUNNING",
      "step_started", "step_completed", "step_started", "step_completed",
      "step_started", "step_completed", "STOPPED", "final">>

EventName(e) == IF e.type = "status" THEN e.phase ELSE e.type

\* The names of want occur in log in this order.
RECURSIVE ContainsInOrder(_, _)
ContainsInOrder(log, want) ==
    IF want = <<>> THEN TRUE
    ELSE IF log = <<>> THEN FALSE
    ELSE IF EventName(Head(log)) = Head(want)
         THEN ContainsInOrder(Tail(log), Tail(want))
         ELSE ContainsInOrder(Tail(log), want)

\* C3: a client attached to the control channel of a session it created
\* receives STARTING, RUNNING, three step_started/step_completed pairs,
\* STOPPED and final, in this order, unless it goes away first.
ScenarioIsReceived ==
    \A c \in Conns : \A s \in SessionIds :
        Attached(c, s)
            ~> (ContainsInOrder(received[c], ScenarioTrace) \/ ~Attached(c, s))

\* C6: once stop has set stop_requested, the session reaches STOPPED: the
\* attached client is sent status STOPPED, unless it goes away first.
StopReachesStopped ==
    \A c \in Conns : \A s \in SessionIds :
        (Attached(c, s) /\ agent_control_state[s].stop_requested)
            ~> (PhaseCount(received[c], "STOPPED") > 0 \/ ~Attached(c, s))

\* C8: the nudges queued for a session are drained: the queue is empty
\* again at some later point.
NudgesAreDrained ==
    \A s \in SessionIds :
        (Registered(agent_control_state, s) /\ agent_control_state[s].nudges # <<>>)
            ~> (Registered(agent_control_state, s) /\ agent_control_state[s].nudges = <<>>)

\* ------------------------------------------------------------------------
\* Properties of a worker run
\* ------------------------------------------------------------------------
\* A status event with a terminal phase.
IsTerminalStatus(e) ==
    /\ "type" \in DOMAIN e
    /\ e.type = "status"
    /\ e.phase \in TerminalPhases

\* C2: a worker that has ended has emitted exactly one terminal status event
\* (COMPLETE, FAILED or STOPPED).
EndedWorkerEmittedOneTerminal ==
    w_pc = "returned"
        => Cardinality({i \in 1..Len(w_events) : IsTerminalStatus(w_events[i])}) = 1

\* ------------------------------------------------------------------------
\* Properties of GracefulShutdown
\* ------------------------------------------------------------------------
\* C7: cleanup is never partial: when cleanup() has ended, normally or by an
\* exception raised by one close, every other resource that had been
\* acquired is closed and its reference released.
CleanupIsNeverPartial ==
    gs_pc \in {"done", "raised"}
        => \A r \in Resources \ close_raises :
              obj_state[r] # "open" /\ ~gs_refs[r]

\* ------------------------------------------------------------------------
\* Properties of LoopDetector
\* ------------------------------------------------------------------------
\* All observations so far carry the same fingerprint.
SameFingerprintSoFar ==
    \A i \in 1..Len(ld_observed) : ld_observed[i] = ld_observed[1]

\* C20: from an empty history, the first loop_threshold - 1 consecutive
\* observations of one fingerprint return false and the loop_threshold-th
\* returns true (threshold 3, capacity 5: false, false, true).
ThresholdthRepeatIsDetected ==
    (/\ ld_observed # <<>>
     /\ Len(ld_observed) <= loop_threshold
     /\ SameFingerprintSoFar)
        => ld_returned = (Len(ld_observed) = loop_threshold)

\* The third observation of one fingerprint has just returned true.
WitnessThirdRepeat ==
    /\ Len(ld_observed) = loop_threshold
    /\ SameFingerprintSoFar
    /\ ld_returned

\* ------------------------------------------------------------------------
\* Properties of the frame channel
\* ------------------------------------------------------------------------
\* No subscribe or unsubscribe is under way: every handler of /ws/browser is
\* before its accept, in its command loop, or has ended.
NoOperationPending == \A v \in Viewers : v_pc[v] \in {"new", "open", "closed"}

\* Nothing but subscribes and unsubscribes has happened: no capture call has
\* had a reason to fail, no sink has broken, no POST /execute/stream.
OnlySubscribesAndUnsubscribes ==
    /\ app_started
    /\ stream_runs = 0
    /\ live_browser.cdp_session => source_alive
    /\ \A v \in Viewers : v_sink[v] = "ok"

\* C14: after any sequence of completed subscribes and unsubscribes, frame
\* production is on exactly when the subscriber set is not empty.
ProductionOnIffSubscribed ==
    (NoOperationPending /\ OnlySubscribesAndUnsubscribes
       /\ live_browser.cdp_session)
        => /\ live_browser.is_streaming = (connected_websocket_clients # {})
           /\ screencast_on = (connected_websocket_clients # {})

\* A viewer is subscribed: it is in the list and its handler is in its
\* command loop.
Subscribed(v) == v \in connected_websocket_clients /\ v_pc[v] = "open"

\* The step is the dispatch of _handle_frame call t.
DispatchStep(t) ==
    /\ t \in frame_tasks
    /\ t.stage = "dispatch"
    /\ frame_tasks' = frame_tasks \ {t}

\* C15: every frame that is dispatched goes to all currently subscribed
\* sinks, whichever of them subscribed first and whoever has left since.
EveryFrameReachesEverySubscriber ==
    [][\A t \in frame_tasks :
          DispatchStep(t)
            => \A v \in Viewers :
                  (Subscribed(v) /\ v_sink[v] = "ok")
                    => v_frames'[v] = Append(v_frames[v], t.frame)]_vars

\* C16: when a frame is dispatched while a subscribed sink is broken, the
\* broken sink is dropped from the subscriber set and every other subscribed
\* sink still receives the frame.
FailedSinkIsDroppedOthersServed ==
    [][\A t \in frame_tasks :
          DispatchStep(t)
            => \A b \in Viewers :
                  (Subscribed(b) /\ v_sink[b] = "broken")
                    => /\ b \notin connected_websocket_clients'
                       /\ \A v \in Viewers \ {b} :
                             (Subscribed(v) /\ v_sink[v] = "ok")
                               => v_frames'[v] = Append(v_frames[v], t.frame)
      ]_vars

\* Frames the source has emitted whose _handle_frame call has not finished
\* dispatching.
FramesInFlight == {t.frame : t \in frame_tasks}

\* C17: at any time at most one frame is in flight: the source is not asked
\* for the next frame before the previous one has been dispatched.
AtMostOneFrameInFlight == Cardinality(FramesInFlight) <= 1

\* The step is a call on the capture session of the singleton that raises:
\* the acknowledgement in _handle_frame, Page.startScreencast or
\* Page.stopScreencast.
CaptureCallFails ==
    /\ live_browser.instance
    /\ ~CdpAnswers(live_browser, source_alive)
    /\ \/ \E t \in frame_tasks :
             /\ t.stage = "ack" /\ t.cb = "singleton"
             /\ frame_tasks' = frame_tasks \ {t}
       \/ \E v \in Viewers :
             /\ v_pc[v] \in {"starting", "stopping"}
             /\ IsSingleton(v_manager[v])
             /\ v_pc'[v] # v_pc[v]

\* C18: when a capture call fails because the capture source is gone, the
\* streamer records production as off, and no worker changes state.
LostSourceTurnsProductionOff ==
    [][CaptureCallFails
         => (~live_browser'.is_streaming /\ UNCHANGED wVars)]_vars

\* C19: starting a worker through POST /execute/stream while a viewer is
\* subscribed neither stops frame production nor detaches the viewer.
WorkerStartKeepsFrameStream ==
    [][(stream_runs' # stream_runs /\ \E v \in Viewers : Subscribed(v))
         => /\ live_browser'.is_streaming = live_browser.is_streaming
            /\ screencast_on' = screencast_on
            /\ connected_websocket_clients' = connected_websocket_clients
      ]_vars

\* ------------------------------------------------------------------------
\* Properties of deliver (send_control_event_threadsafe)
\* ------------------------------------------------------------------------
\* The step is a call of deliver by the worker thread.
DeliverCallStep == d_calls' = d_calls + 1

\* The step is the main loop running a scheduled send_control_event.
LoopRunStep == loop_queue # <<>> /\ loop_queue' = Tail(loop_queue)

\* C11: deliver for a session with no control channel attached is a silent
\* no-op: nothing is scheduled on the main loop, nothing is raised, the
\* worker goes on and no state of the control plane changes; and a send that
\* was scheduled while a channel was attached changes nothing either when it
\* runs after the channel has detached.
DeliverWithoutChannelIsNoOp ==
    [][/\ (DeliverCallStep
            /\ WorkerSession \notin DOMAIN control_websocket_clients)
          => /\ loop_queue' = loop_queue
             /\ d_pc' = "idle"
             /\ ~deliver_raised' /\ ~emit_raised'
             /\ UNCHANGED ctlVars
       /\ (LoopRunStep
            /\ Head(loop_queue).session \notin DOMAIN control_websocket_clients)
          => /\ ~deliver_raised' /\ ~emit_raised'
             /\ UNCHANGED ctlVars
      ]_vars

\* deliver found no channel although an earlier send, scheduled while a
\* channel was attached, is still waiting on the main loop.
WitnessDeliverAfterDetach ==
    /\ d_last = "no_channel"
    /\ d_pc = "idle"
    /\ loop_queue # <<>>
    /\ WorkerSession \notin DOMAIN control_websocket_clients

\* Ways a delivery fails: future.result timed out, send_json raised, the
\* channel was gone when the send ran.
DeliveryFailures == {"timeout", "send_error", "detached"}

\* C12: a delivery failure is swallowed: deliver returns to the worker
\* without raising, nothing is raised out of _emit, and the worker thread is
\* where a successful delivery would have left it.
DeliveryFailureIsSwallowed ==
    [][(d_pc = "waiting" /\ d_pc' # "waiting" /\ d_last' \in DeliveryFailures)
         => /\ d_pc' = "idle"
            /\ d_calls' = d_calls
            /\ ~deliver_raised' /\ ~emit_raised'
            /\ UNCHANGED wVars
      ]_vars

\* A delivery timed out, the worker went on and is delivering its next event
\* while the earlier send is still scheduled.
WitnessWorkerContinuesAfterTimeout ==
    /\ d_last = "timeout"
    /\ d_pc = "waiting"
    /\ Len(loop_queue) = 2
    /\ ~deliver_raised /\ ~emit_raised

\* ------------------------------------------------------------------------
\* Further properties of LoopDetector
\* ------------------------------------------------------------------------
\* The fingerprint of the last observation.
LastObserved == ld_observed[Len(ld_observed)]

ObserveStep == Len(ld_observed') = Len(ld_observed) + 1

\* C22: no lock-in: at any point, also directly after detect_visual_loop has
\* returned true, observing a fingerprint that occurs fewer than threshold
\* times in the retained window returns false.
NoStuckLockIn ==
    [][(/\ ObserveStep
        /\ Count(screenshot_hashes', ld_observed'[Len(ld_observed')])
             < self_loop_threshold)
         => ~ld_returned']_vars

\* The detector answered true, then false, then true again.
WitnessRetriggered ==
    \E i, j, k \in 1..Len(ld_returns) :
        /\ i < j /\ j < k
        /\ ld_returns[i] /\ ~ld_returns[j] /\ ld_returns[k]

\* The branch of get_alternative_action an action falls into.
Category(action) ==
    IF action = None THEN "other"
    ELSE IF "scroll" \in KeywordsIn(action) THEN "scroll"
    ELSE IF "click" \in KeywordsIn(action) THEN "click"
    ELSE IF "type" \in KeywordsIn(action) THEN "type"
    ELSE "other"

\* C23: rotation: two consecutive calls of get_alternative_action with the
\* same last action category never return the same alternative, whatever
\* detect_visual_loop, record_action and reset calls lie between them.
ConsecutiveSuggestionsDiffer ==
    \A i \in 1..(Len(ld_suggested) - 1) :
        Category(ld_suggested[i].action) = Category(ld_suggested[i + 1].action)
            => ld_suggested[i].chosen # ld_suggested[i + 1].chosen

\* The step is one get_alternative_action.
SuggestStep == Len(ld_suggested') = Len(ld_suggested) + 1

\* C24: every call of get_alternative_action increments the attempt counter
\* by exactly one and returns alternatives[counter mod len(alternatives)]
\* for the counter after the increment and the list of the last recorded
\* action.
SuggestionFollowsCounter ==
    [][SuggestStep
         => /\ loop_break_attempts' = loop_break_attempts + 1
            /\ LET alts == alternatives(last_action)
                   index == loop_break_attempts' % Len(alts)
               IN  ld_suggested'[Len(ld_suggested')].chosen = alts[index + 1]
      ]_vars

\* The second call in a row after a scroll wraps around to the first entry
\* of the list.
WitnessSuggestionWrapsAround ==
    /\ Len(ld_suggested) = 2
    /\ loop_break_attempts = 2
    /\ ld_suggested[1] = [action |-> "scroll down", chosen |-> "go_back"]
    /\ ld_suggested[2] = [action |-> "scroll down", chosen |-> "click_random"]

\* The alternatives the spec allows after an action of each kind.
AllowedAfter(verb) ==
    CASE verb = "scroll" -> {"click_random", "go_back"}
      [] verb = "click" -> {"scroll_down", "go_back"}
      [] verb = "type" -> {"click_random", "scroll_down"}
      [] OTHER -> {"click_random", "scroll_down", "go_back"}

\* C25: the alternative proposed belongs to the set for the last recorded
\* action: click_random or go_back after a scroll, scroll_down or go_back
\* after a click, click_random or scroll_down after a type, any of the three
\* with no or an unrecognised last action.
SuggestionFitsLastAction ==
    \A i \in 1..Len(ld_suggested) :
        ld_suggested[i].chosen
            \in AllowedAfter(IF ld_suggested[i].action = None THEN "other"
                             ELSE Verb(ld_suggested[i].action))

\* ------------------------------------------------------------------------
\* Further properties of the control plane
\* ------------------------------------------------------------------------
\* The step is POST /execute for session id s.
ExecuteStep(s) == execute_response[s] = "none" /\ execute_response'[s] # "none"

\* C26: publish-before-start: POST /execute registers the control record
\* (paused false, stop_requested false, no nudges), launches the worker on
\* that record, and returns the session id.
PublishBeforeStart ==
    [][\A s \in SessionIds :
          ExecuteStep(s)
            => /\ Registered(agent_control_state', s)
               /\ agent_control_state'[s] = InitialControlState
               /\ run_agent_task'[s] = "created"
               /\ execute_response'[s] = "accepted"]_vars

\* Types of the commands the control channel knows.
KnownCommands == {"pause", "resume", "stop", "nudge", "ping"}

\* The server takes the oldest message of connection c from its inbox.
TakesMessage(c) ==
    /\ ws_state[c] = "open"
    /\ inbox[c] # <<>>
    /\ inbox'[c] # inbox[c]
    /\ Len(inbox'[c]) < Len(inbox[c])

\* C27: a client message that is not a well-formed known command is
\* ignored: no control state changes, nothing is sent in response, and the
\* connection stays open with the later messages still to be processed.
BadMessageIsIgnored ==
    [][\A c \in Conns :
          (TakesMessage(c) /\ Head(inbox[c]).type \notin KnownCommands)
            => /\ agent_control_state' = agent_control_state
               /\ received' = received
               /\ ws_state'[c] = "open"
               /\ inbox'[c] = Tail(inbox[c])
               /\ control_websocket_clients' = control_websocket_clients
      ]_vars

\* An event of type "final".
IsFinal(e) == "type" \in DOMAIN e /\ e.type = "final"

\* The run ended after a fault: an error was recorded and success is false.
WorkerFailed == w_pc = "returned" /\ ~w_success /\ w_errors > 0

\* C28: a worker that ended after a failure has surfaced it as a terminal
\* status and exactly one final event; it never ends with only an error
\* event or with no final event.
FailureSurfacesAsTerminalAndFinal ==
    WorkerFailed
        => /\ \E i \in 1..Len(w_events) : IsTerminalStatus(w_events[i])
           /\ Cardinality({i \in 1..Len(w_events) : IsFinal(w_events[i])}) = 1

\* C29: check_shutdown is false before the first signal; the step that sets
\* shutdown_requested changes nothing else and does not leave the process;
\* the flag never reverts; and the process is left only by a step taken
\* while the flag is already set.
ShutdownIsTwoStage ==
    /\ ~check_shutdown
    /\ [][/\ shutdown_requested => shutdown_requested'
          /\ (~shutdown_requested /\ shutdown_requested')
                => /\ ~process_exited'
                   /\ UNCHANGED <<gs_refs, obj_state, close_raises, gs_pc>>
          /\ (~process_exited /\ process_exited') => shutdown_requested
         ]_vars

\* A second signal has arrived while the flag was set.
WitnessForceQuit == check_shutdown /\ process_exited

\* The try block runs a `done` action while nothing has been collected.
DoneWithoutData == w_pc = "act" /\ w_pc' # "act" /\ w_action = "done" /\ w_collected = 0

\* A `done` with nothing collected is rejected: no result is produced for it
\* and the loop goes on to its next cycle.
DoneWithoutDataIsRejected ==
    [][DoneWithoutData
         => /\ w_pc' = "loop_top"
            /\ w_step' = w_step + 1
            /\ ~w_success'
            /\ UNCHANGED <<w_status, w_events, w_collected>>]_vars

\* C30: the run ends completed only after a `done` action taken while the
\* collected set was non-empty.
CompletesOnlyByDoneWithData ==
    w_status = "completed" => (w_action = "done" /\ w_collected > 0)

\* The record of session s after a command m arrived on a channel opened
\* with session id sid, field by field.
RecordAfter(old, s, sid, m) ==
    [paused |-> IF s = sid /\ m.type = "pause" THEN TRUE
                ELSE IF s = sid /\ m.type = "resume" THEN FALSE
                ELSE old.paused,
     stop_requested |-> IF s = sid /\ m.type = "stop" THEN TRUE
                        ELSE old.stop_requested,
     nudges |-> IF s = sid /\ m.type = "nudge" THEN Append(old.nudges, m.text)
                ELSE old.nudges]

\* C31: nudge only appends its text to the queue of its own session; pause,
\* resume, stop and ping never add, remove or reorder nudges; each command
\* changes only the field it names, only in the record of its own session;
\* and no step other than a command touches a registered record.
CommandsChangeOnlyTheirField ==
    [][/\ \A c \in Conns :
            ReceiveStep(c)
              => /\ DOMAIN agent_control_state' = DOMAIN agent_control_state
                 /\ \A s \in DOMAIN agent_control_state :
                       agent_control_state'[s] =
                          RecordAfter(agent_control_state[s], s,
                                      ws_session[c], Head(inbox[c]))
       /\ (\A c \in Conns : ~ReceiveStep(c))
              => \A s \in DOMAIN agent_control_state :
                    /\ s \in DOMAIN agent_control_state'
                    /\ agent_control_state'[s] = agent_control_state[s]
      ]_vars

\* Two nudges arrived with a pause between them.
WitnessNudgesInArrivalOrder ==
    /\ Registered(agent_control_state, "s1")
    /\ agent_control_state["s1"].nudges = <<"a", "b">>
    /\ agent_control_state["s1"].paused

\* The last k entries of a sequence.
LastK(seq, k) == [i \in 1..k |-> seq[Len(seq) - k + i]]

\* C32: after every detect_visual_loop the retained history holds at most
\* max_history fingerprints and is exactly the most recent
\* min(n, max_history) observed fingerprints, in observation order.
HistoryIsMostRecentWindow ==
    LET n == Len(ld_observed)
        k == IF n < self_max_history THEN n ELSE self_max_history
    IN /\ Len(screenshot_hashes) <= self_max_history
       /\ screenshot_hashes = LastK(ld_observed, k)

\* A detector of capacity 5 has evicted its oldest fingerprint, which
\* differs from the one that followed it.
WitnessOldestEvicted ==
    /\ self_max_history = max_history
    /\ Len(ld_observed) = max_history + 1
    /\ ld_observed[1] # ld_observed[2]
    /\ screenshot_hashes[1] = ld_observed[2]

\* The step is a record_action that changes last_action.
RecordStep == last_action' # last_action /\ last_action' # None

\* C33: record_action sets last_action to its argument and leaves the
\* fingerprint history and the attempt counter unchanged; detect_visual_loop
\* leaves last_action and the attempt counter unchanged; and a suggestion is
\* made for the value last_action holds when it is asked for.
RecordAndObserveAreIndependent ==
    [][/\ RecordStep
            => /\ last_action' \in RecordedActions
               /\ screenshot_hashes' = screenshot_hashes
               /\ ld_observed' = ld_observed
               /\ loop_break_attempts' = loop_break_attempts
       /\ ObserveStep
            => /\ last_action' = last_action
               /\ loop_break_attempts' = loop_break_attempts
       /\ SuggestStep
            => /\ ld_suggested'[Len(ld_suggested')].action = last_action
               /\ last_action' = last_action
      ]_vars

\* Two suggestions were made for two different recorded actions, with
\* observations made along the way and the counter still counting both.
WitnessSuggestionUsesLatestAction ==
    /\ Len(ld_suggested) = 2
    /\ ld_suggested[1].action \in RecordedActions
    /\ ld_suggested[2].action \in RecordedActions
    /\ ld_suggested[1].action # ld_suggested[2].action
    /\ ld_observed # <<>>
    /\ loop_break_attempts = 2

\* The answer the sender of a known command expects.
ExpectedAnswer(m) ==
    IF m.type = "ping" THEN Pong
    ELSE IF m.type = "nudge" THEN NudgeAck(m.text)
    ELSE CommandAck(m.type)

\* C34: a known command arriving on a channel whose session id has no
\* control-state record is answered (ping with pong, the others with a
\* command_ack); it creates no record, changes no record of another
\* session, and no status event is sent to anyone.
UnregisteredCommandIsOnlyAnswered ==
    [][\A c \in Conns :
          (/\ ReceiveStep(c)
           /\ ~Registered(agent_control_state, ws_session[c])
           /\ Head(inbox[c]).type \in KnownCommands)
            => /\ received' =
                    [received EXCEPT
                        ![c] = Append(@, ExpectedAnswer(Head(inbox[c])))]
               /\ agent_control_state' = agent_control_state
      ]_vars

\* A channel opened for an id without a record was answered a pause and a
\* ping while another session is registered and untouched.
WitnessUnregisteredAnswered ==
    \E c \in Conns :
        /\ ws_state[c] = "open"
        /\ ws_session[c] = "unknown"
        /\ received[c] = <<StatusEvent("IDLE"), CommandAck("pause"), Pong>>
        /\ Registered(agent_control_state, "s1")
        /\ agent_control_state["s1"] = InitialControlState

\* C35: an event produced by a worker reaches only the progress callback
\* of that worker, and once every worker has ended builtins.print is the
\* original print again.
WorkersAreIsolated ==
    /\ \A w \in Workers :
          \A i \in 1..Len(ph_got[w]) : ph_got[w][i] = w
    /\ (\A w \in Workers : ph_pc[w] = "ended") => builtins_print = "original"

\* C36: whenever a control connection of a session is open, the registry
\* maps that session to an open connection, so that send_control_event
\* still has a channel to deliver to.
OpenChannelIsRegistered ==
    \A c \in Conns :
        ws_state[c] = "open"
            => /\ ws_session[c] \in DOMAIN control_websocket_clients
               /\ ws_state[control_websocket_clients[ws_session[c]]] = "open"

\* The step ends the disconnect cleanup of viewer a: the await inside
\* stop_streaming returns.
CleanupEnds(a) == v_pc[a] = "stopping" /\ v_pc'[a] = "closed"

\* C37: when the disconnect cleanup of the last viewer ends after a new
\* viewer has subscribed in the meantime, and no operation is left pending,
\* frame production is on and the new viewer's sink is the one that
\* receives the frames.
SubscribeDuringCleanupStreams ==
    [][\A a, b \in Viewers :
          (/\ CleanupEnds(a)
           /\ Subscribed(b)
           /\ OnlySubscribesAndUnsubscribes
           /\ NoOperationPending')
            => /\ live_browser'.is_streaming
               /\ screencast_on'
               /\ live_browser'.frame_callback = b]_vars

\* The step loop ended in the branch of an accepted `done`
\* (adaptive_agent.py:907-931): that branch alone prints the completion
\* banner.
DoneWasAccepted ==
    \E i \in 1..Len(w_events) :
        w_events[i] = ProgressEvent("task_completed", "info")

\* C38: the returned result has success = true only if the step loop ended
\* with an accepted done; a run that ended by running out of steps, by a
\* screenshot failure or by an error reports success = false.
SuccessOnlyAfterAcceptedDone ==
    w_pc = "returned"
        => /\ w_success => DoneWasAccepted
           /\ (w_raised \/ w_errors > 0 \/ ~DoneWasAccepted)
                 => (~w_success /\ w_status = "failed")

\* C39: when the stream of /execute/stream has ended, the client has been
\* sent every event the worker emitted, in emission order, and after them
\* the final (or error) event; nothing is left on the queue.
StreamDeliversEveryEvent ==
    es_pc = "closed"
        => /\ es_streamed =
                 [i \in 1..es_emitted |-> i] \o <<FinalEvent(agent_task)>>
           /\ event_queue = <<>>

\* C40: the singleton, whenever it is set, is a started manager (one with
\* a capture session): a start that failed leaves it unset, so that a later
\* get_live_browser starts a browser again.
SingletonIsStarted == live_browser.instance => live_browser.cdp_session

============================================================================
